---- MODULE Spec2Model ----
(***************************************************************************)
(* Infortrend checkmk plugin (infortrend/agent_based): the six check       *)
(* functions -- chassis sensors, disks and logical drives, each in the     *)
(* dialects A and B -- decoding one parsed section item into the Results   *)
(* and Metrics they yield.                                                 *)
(*                                                                         *)
(* Python values that may be an int or the empty string '' (the value      *)
(* saveint returns when int() fails) are tagged: PyInt(n) or PyStr(s).     *)
(* A check function is a generator: its outcome is the sequence of objects *)
(* it yielded and the exception, if any, that ended it.  Result, Metric,   *)
(* Service and State come from cmk.agent_based.v2, which is not part of    *)
(* the repository: they are plain data constructors here.                  *)
(*                                                                         *)
(* Spec starts from a parsed section drawn over the whole range of status  *)
(* codes and sensor types and runs the checks on it.  SpecParse starts     *)
(* from the rows of an SNMP table, runs the plugin's parser on them and    *)
(* then its discovery and check functions.  SpecRepoll polls the device    *)
(* again and again and records what every parse and check was given and    *)
(* what it returned.                                                       *)
(***************************************************************************)
EXTENDS Integers, Sequences, FiniteSets, TLC

VARIABLES
    plugin,     \* name of the CheckPlugin whose section was parsed
    snmp_table, \* the rows handed to the parser (<<>> when not recorded)
    section,    \* the parsed section: item key -> record
    section_keys, \* the keys of the section in insertion order (section.keys())
    item,       \* item of the last check invocation
    yielded,    \* objects yielded by the last check or discovery, in order
    raised,     \* exception that ended the last invocation, or "none"
    pc,         \* "start" before the parser ran, "parsed" after it returned,
                \* "parse_raised" after it raised, "discovered" after a
                \* discovery, "checked" after a check
    history     \* history variable: the parses and checks observed so far,
                \* each with its input and its output (kept by SpecRepoll only)

vars == <<plugin, snmp_table, section, section_keys, item, yielded, raised, pc, history>>

-----------------------------------------------------------------------------
\* Bounds of the model

\* largest raw status / state code drawn for a record (the SNMP status octet)
MaxStatus == 255

\* largest number of rows of an SNMP table handed to a parser
MaxRows == 2

\* largest number of polls (parser runs) of one behaviour of SpecRepoll
MaxPolls == 3

\* largest number of check invocations whose output SpecRepoll records
MaxChecks == 2

-----------------------------------------------------------------------------
\* Python values

PyInt(n) == [int |-> n]
PyStr(s) == [str |-> s]
IsInt(v) == "int" \in DOMAIN v
\* a float num / 2 ^ shift, negated when negative is set, with num odd unless
\* shift is 0 (0.0 and -0.0 have num 0)
RECURSIVE PyFloat(_, _, _)
PyFloat(negative, num, shift) ==
    IF num = 0 THEN [float |-> [negative |-> negative, num |-> 0, shift |-> 0]]
    ELSE IF shift > 0 /\ num % 2 = 0 THEN PyFloat(negative, num \div 2, shift - 1)
    ELSE [float |-> [negative |-> negative, num |-> num, shift |-> shift]]
IsFloat(v) == "float" \in DOMAIN v

\* the value saveint returns when int() raises ValueError
Absent == PyStr("")

\* None, as returned by dict.get for a missing key
None == [cls |-> "NoneType"]

\* f'{v}' for an int, a str or None
format(v) ==
    IF "int" \in DOMAIN v THEN ToString(v.int)
    ELSE IF "str" \in DOMAIN v THEN v.str
    ELSE "None"

\* key in mapping.keys(), for a mapping with int keys
HasKey(mapping, v) == IsInt(v) /\ v.int \in DOMAIN mapping

\* faulty variant of get: a missing key falls back to an entry of the section
get_any_entry(sec, key) ==
    IF key \in DOMAIN sec THEN sec[key]
    ELSE IF DOMAIN sec # {} THEN sec[CHOOSE k \in DOMAIN sec : TRUE]
    ELSE None

\* section.get(item)
get(sec, key) == IF key \in DOMAIN sec THEN sec[key] ELSE None

isinstance(obj, cls) == obj.cls = cls

RECURSIVE GCD(_, _)
GCD(a, b) == IF b = 0 THEN a ELSE GCD(b, a % b)

Abs(n) == IF n < 0 THEN 0 - n ELSE n

\* a / b (true division) of two ints, b > 0: the quotient as a fraction in
\* lowest terms, so that 250 / 10 is [num |-> 25, den |-> 1]
truediv(a, b) ==
    LET g == GCD(Abs(a), b)
    IN  [num |-> a \div g, den |-> b \div g]

\* (status & 1 << bit) >> bit, for a Python int (two's complement for negatives)
bit_of(status, bit) == (status \div (2 ^ bit)) % 2

\* sub is a substring of text
Contains(text, sub) ==
    \E i \in 1..(Len(text) - Len(sub) + 1) : SubSeq(text, i, i + Len(sub) - 1) = sub

-----------------------------------------------------------------------------
\* cmk.agent_based.v2 objects and generator outcomes

\* Result(state=..., summary=...): the constructor of the framework takes a
\* summary that is not empty and raises ValueError for an empty one (the texts
\* the checks pass hold no line break, which it rejects as well)
Result(state, summary) ==
    IF summary = "" THEN [kind |-> "ValueError"]
    ELSE [kind |-> "Result", state |-> state, summary |-> summary]
Metric(name, value) == [kind |-> "Metric", name |-> name, value |-> value]

\* the generator ran to its end after yielding ys
Done(ys) == [yielded |-> ys, raised |-> "none"]
\* the generator raised exc after yielding ys
Raise(ys, exc) == [yielded |-> ys, raised |-> exc]
\* yield Result(...): the Result is yielded, or its constructor raises and
\* nothing is
yield(result) ==
    IF result.kind = "ValueError" THEN Raise(<<>>, "ValueError") ELSE Done(<<result>>)
\* yield Result(...) once per iteration of a loop: the Results are yielded in
\* order up to the first one whose constructor raises
yield_each(results) ==
    LET rejected == {i \in DOMAIN results : results[i].kind = "ValueError"}
        first == CHOOSE i \in rejected : \A j \in rejected : i <= j
    IN  IF rejected = {} THEN Done(results)
        ELSE Raise(SubSeq(results, 1, first - 1), "ValueError")
\* two consecutive parts of a generator body
Then(a, b) ==
    IF a.raised # "none" THEN a
    ELSE [yielded |-> a.yielded \o b.yielded, raised |-> b.raised]

-----------------------------------------------------------------------------
\* InfortrendChassisSensorTypeEnum

POWER_SUPPLY == 1
FAN == 2
TEMPERATURE == 3
UPS == 4
VOLTAGE == 5
CURRENT == 6
DOOR == 9
SPEAKER == 10
BATTERY == 11
LED == 12
CBU == 13
NET_IF == 14
BACKPLANE == 15
SLOT == 17
ENCLOSURE_DRAWER == 18
ENCLOSURE_MGMNT == 31

InfortrendChassisSensorTypeEnum ==
    { POWER_SUPPLY, FAN, TEMPERATURE, UPS, VOLTAGE, CURRENT, DOOR, SPEAKER,
      BATTERY, LED, CBU, NET_IF, BACKPLANE, SLOT, ENCLOSURE_DRAWER,
      ENCLOSURE_MGMNT }

InfortrendChassisSensorSection(status, type, value, unit) ==
    [ cls |-> "InfortrendChassisSensorSection",
      sensor_status |-> status,
      sensor_type |-> type,
      metric_value_raw |-> value,
      metric_unit_raw |-> unit ]

-----------------------------------------------------------------------------
\* Static tables

\* STATUS_INFO_MAP of infortrend_chassis_a.py (dialect A): sensor type -> entry. "bits" keeps the
\* declaration order of the dict (a sequence of bit/msgs pairs, msgs = <<clear, set>>);
\* adtl_func is the lambda status: status >> shift & mask.
STATUS_INFO_MAP_A ==
    POWER_SUPPLY :>
        [ bits |-> <<
            [bit |-> 0, msgs |-> <<"Power supply functioning normally",
                                    "Power supply malfunctioning">>],
            [bit |-> 6, msgs |-> <<"Power supply is ON",
                                    "Power supply is OFF">>],
            [bit |-> 7, msgs |-> <<"Power supply IS present",
                                    "Power supply is NOT present">>] >> ] @@
    FAN :>
        [ bits |-> <<
            [bit |-> 0, msgs |-> <<"Fan functioning normally",
                                    "Fan malfunctioning">>],
            [bit |-> 6, msgs |-> <<"Fan is ON",
                                    "Fan is OFF">>],
            [bit |-> 7, msgs |-> <<"Fan IS present",
                                    "Fan is NOT present">>] >> ] @@
    TEMPERATURE :>
        [ bits |-> <<
            [bit |-> 0, msgs |-> <<"Temp. sensor functioning normally",
                                    "Temp. sensor malfunctioning">>],
            [bit |-> 6, msgs |-> <<"Temp. Sensor is Activated",
                                    "Temp. Sensor is NOT Activated">>],
            [bit |-> 7, msgs |-> <<"Temperature sensor IS present",
                                    "Temperature sensor is NOT present">>] >>,
          adtl_info |-> (
            0 :> <<0, "Temp. within safe range">> @@
            2 :> <<1, "Cold Temp. Warning">> @@
            3 :> <<1, "Hot Temp. Warning">> @@
            4 :> <<2, "Cold Temp. Limit Exceeded">> @@
            5 :> <<2, "Hot Temp. Limit Exceeded">>),
          adtl_func |-> [shift |-> 1, mask |-> 7] ] @@
    UPS :>
        [ bits |-> <<
            [bit |-> 0, msgs |-> <<"Unit functioning normally",
                                    "Unit malfunctioning">>],
            [bit |-> 1, msgs |-> <<"AC Power present",
                                    "AC Power NOT present">>],
            [bit |-> 6, msgs |-> <<"UPS is ON",
                                    "UPS is OFF">>],
            [bit |-> 7, msgs |-> <<"UPS IS present",
                                    "UPS is NOT present">>] >>,
          adtl_info |-> (
            0 :> <<0, "battery fully charged">> @@
            1 :> <<1, "battery not fully charged">> @@
            2 :> <<2, "battery charge critically low">> @@
            3 :> <<2, "battery completely drained">>),
          adtl_func |-> [shift |-> 2, mask |-> 3] ] @@
    VOLTAGE :>
        [ bits |-> <<
            [bit |-> 0, msgs |-> <<"Voltage sensor functioning normally",
                                    "Voltage sensor malfunctioning">>],
            [bit |-> 6, msgs |-> <<"Voltage Sensor is Activated",
                                    "Voltage Sensor is NOT Activated">>],
            [bit |-> 7, msgs |-> <<"Voltage sensor IS present",
                                    "Voltage sensor is NOT present">>] >>,
          adtl_info |-> (
            0 :> <<0, "Voltage within acceptable range">> @@
            2 :> <<1, "Low Voltage Warning">> @@
            3 :> <<1, "High Voltage Warning">> @@
            4 :> <<2, "Low Voltage Limit Exceeded">> @@
            5 :> <<2, "High Voltage Limit Exceeded">>),
          adtl_func |-> [shift |-> 1, mask |-> 7] ] @@
    CURRENT :>
        [ bits |-> <<
            [bit |-> 0, msgs |-> <<"Current sensor functioning normally",
                                    "Current sensor malfunctioning">>],
            [bit |-> 6, msgs |-> <<"Current Sensor is Activated",
                                    "Current Sensor is NOT Activated">>],
            [bit |-> 7, msgs |-> <<"Current sensor IS present",
                                    "Current sensor is NOT present">>] >>,
          adtl_info |-> (
            0 :> <<0, "Current within acceptable range">> @@
            3 :> <<1, "Over Current Warning">> @@
            5 :> <<2, "Over Current Limit Exceeded">>),
          adtl_func |-> [shift |-> 1, mask |-> 7] ] @@
    DOOR :>
        [ bits |-> <<
            [bit |-> 0, msgs |-> <<"Door OK",
                                    "Door, door lock, or door sensor malfunctioning">>],
            [bit |-> 1, msgs |-> <<"Door is shut",
                                    "Door is open">>],
            [bit |-> 6, msgs |-> <<"Door lock engaged",
                                    "Door lock NOT engaged">>],
            [bit |-> 7, msgs |-> <<"Door IS present",
                                    "Door is NOT present">>] >> ] @@
    SPEAKER :>
        [ bits |-> <<
            [bit |-> 0, msgs |-> <<"Speaker functioning normally",
                                    "Speaker malfunctioning">>],
            [bit |-> 6, msgs |-> <<"Speaker is ON",
                                    "Speaker is OFF">>],
            [bit |-> 7, msgs |-> <<"Speaker IS present",
                                    "Speaker is NOT present">>] >> ] @@
    BATTERY :>
        [ bits |-> <<
            [bit |-> 0, msgs |-> <<"Battery functioning normally",
                                    "Battery malfunctioning">>],
            [bit |-> 1, msgs |-> <<"Battery charging OFF (or trickle)",
                                    "Battery charging ON">>],
            [bit |-> 6, msgs |-> <<"Battery-backup is enabled",
                                    "Battery-backup is disabled">>],
            [bit |-> 7, msgs |-> <<"Battery IS present",
                                    "Battery is NOT present">>] >>,
          adtl_info |-> (
            0 :> <<0, "battery fully charged">> @@
            1 :> <<1, "battery not fully charged">> @@
            2 :> <<2, "battery charge critically low">> @@
            3 :> <<2, "battery completely drained">>),
          adtl_func |-> [shift |-> 2, mask |-> 3] ] @@
    LED :>
        [ bits |-> <<
            [bit |-> 0, msgs |-> <<"LED functioning normally",
                                    "LED malfunctioning">>],
            [bit |-> 6, msgs |-> <<"LED is ON",
                                    "LED is OFF">>],
            [bit |-> 7, msgs |-> <<"LED IS present",
                                    "LED is NOT present">>] >> ] @@
    CBU :>
        [ bits |-> <<
            [bit |-> 0, msgs |-> <<"Cache Backup Module functioning normally",
                                    "Cache Backup Module malfunctioning">>],
            [bit |-> 6, msgs |-> <<"Cache Backup Module is ON",
                                    "Cache Backup Module is OFF">>],
            [bit |-> 7, msgs |-> <<"Cache Backup Module IS present",
                                    "Cache Backup Module is NOT present">>] >> ] @@
    NET_IF :>
        [ bits |-> <<
            [bit |-> 0, msgs |-> <<"interface functioning normally",
                                    "interface malfunctioning">>],
            [bit |-> 6, msgs |-> <<"interface is up",
                                    "interface is down">>],
            [bit |-> 7, msgs |-> <<"interface IS present",
                                    "interface is NOT present">>] >> ] @@
    SLOT :>
        [ bits |-> <<
            [bit |-> 0, msgs |-> <<"Slot sense circuitry functioning normally",
                                    "Slot sense circuitry malfunctioning">>],
            [bit |-> 1, msgs |-> <<"Device in slot has not been marked \"needing replacement\" or a replacement drive has been inserted",
                                    "Device in slot has been marked BAD and is awaiting replacement">>],
            [bit |-> 2, msgs |-> <<"Slot is activated so that drive can be accessed",
                                    "Slot NOT activated">>],
            [bit |-> 6, msgs |-> <<"Slot is NOT ready for insertion/removal",
                                    "Slot is ready for insertion/removal">>],
            [bit |-> 7, msgs |-> <<"Device inserted in slot",
                                    "Slot is empty">>] >> ]

\* STATUS_INFO_MAP of infortrend_chassis_b.py (dialect B): sensor type -> entry. "bits" keeps the
\* declaration order of the dict (a sequence of bit/msgs pairs, msgs = <<clear, set>>);
\* adtl_func is the lambda status: status >> shift & mask.
STATUS_INFO_MAP_B ==
    POWER_SUPPLY :>
        [ bits |-> <<
            [bit |-> 0, msgs |-> <<"Power supply functioning normally",
                                    "Power supply malfunctioning">>],
            [bit |-> 6, msgs |-> <<"Power supply is ON",
                                    "Power supply is OFF">>],
            [bit |-> 7, msgs |-> <<"Power supply IS present",
                                    "Power supply is NOT present">>] >> ] @@
    FAN :>
        [ bits |-> <<
            [bit |-> 0, msgs |-> <<"Fan functioning normally",
                                    "Fan malfunctioning">>],
            [bit |-> 6, msgs |-> <<"Fan is ON",
                                    "Fan is OFF">>],
            [bit |-> 7, msgs |-> <<"Fan IS present",
                                    "Fan is NOT present">>] >> ] @@
    TEMPERATURE :>
        [ bits |-> <<
            [bit |-> 0, msgs |-> <<"Temp. sensor functioning normally",
                                    "Temp. sensor malfunctioning">>],
            [bit |-> 6, msgs |-> <<"Temp. Sensor is Activated",
                                    "Temp. Sensor is NOT Activated">>],
            [bit |-> 7, msgs |-> <<"Temperature sensor IS present",
                                    "Temperature sensor is NOT present">>] >>,
          adtl_info |-> (
            0 :> "Temp. within safe range" @@
            2 :> "Cold Temp. Warning" @@
            3 :> "Hot Temp. Warning" @@
            4 :> "Cold Temp. Limit Exceeded" @@
            5 :> "Hot Temp. Limit Exceeded"),
          adtl_func |-> [shift |-> 1, mask |-> 7] ] @@
    UPS :>
        [ bits |-> <<
            [bit |-> 0, msgs |-> <<"Unit functioning normally",
                                    "Unit malfunctioning">>],
            [bit |-> 1, msgs |-> <<"AC Power present",
                                    "AC Power NOT present">>],
            [bit |-> 6, msgs |-> <<"UPS is ON",
                                    "UPS is OFF">>],
            [bit |-> 7, msgs |-> <<"UPS IS present",
                                    "UPS is NOT present">>] >>,
          adtl_info |-> (
            0 :> "battery fully charged" @@
            1 :> "battery not fully charged" @@
            2 :> "battery charge critically low" @@
            3 :> "battery completely drained"),
          adtl_func |-> [shift |-> 2, mask |-> 3] ] @@
    VOLTAGE :>
        [ bits |-> <<
            [bit |-> 0, msgs |-> <<"Voltage sensor functioning normally",
                                    "Voltage sensor malfunctioning">>],
            [bit |-> 6, msgs |-> <<"Voltage Sensor is Activated",
                                    "Voltage Sensor is NOT Activated">>],
            [bit |-> 7, msgs |-> <<"Voltage sensor IS present",
                                    "Voltage sensor is NOT present">>] >>,
          adtl_info |-> (
            0 :> "Voltage within acceptable range" @@
            2 :> "Low Voltage Warning" @@
            3 :> "High Voltage Warning" @@
            4 :> "Low Voltage Limit Exceeded" @@
            5 :> "High Voltage Limit Exceeded"),
          adtl_func |-> [shift |-> 1, mask |-> 7] ] @@
    CURRENT :>
        [ bits |-> <<
            [bit |-> 0, msgs |-> <<"Current sensor functioning normally",
                                    "Current sensor malfunctioning">>],
            [bit |-> 6, msgs |-> <<"Current Sensor is Activated",
                                    "Current Sensor is NOT Activated">>],
            [bit |-> 7, msgs |-> <<"Current sensor IS present",
                                    "Current sensor is NOT present">>] >>,
          adtl_info |-> (
            0 :> "Current within acceptable range" @@
            3 :> "Over Current Warning" @@
            5 :> "Over Current Limit Exceeded"),
          adtl_func |-> [shift |-> 1, mask |-> 7] ] @@
    8 :>
        <<>> @@
    DOOR :>
        [ bits |-> <<
            [bit |-> 0, msgs |-> <<"Door OK",
                                    "Door, door lock, or door sensor malfunctioning">>],
            [bit |-> 1, msgs |-> <<"Door is shut",
                                    "Door is open">>],
            [bit |-> 6, msgs |-> <<"Door lock engaged",
                                    "Door lock NOT engaged">>],
            [bit |-> 7, msgs |-> <<"Door IS present",
                                    "Door is NOT present">>] >> ] @@
    SPEAKER :>
        [ bits |-> <<
            [bit |-> 0, msgs |-> <<"Speaker functioning normally",
                                    "Speaker malfunctioning">>],
            [bit |-> 6, msgs |-> <<"Speaker is ON",
                                    "Speaker is OFF">>],
            [bit |-> 7, msgs |-> <<"Speaker IS present",
                                    "Speaker is NOT present">>] >> ] @@
    BATTERY :>
        [ bits |-> <<
            [bit |-> 0, msgs |-> <<"Battery functioning normally",
                                    "Battery malfunctioning">>],
            [bit |-> 1, msgs |-> <<"Battery charging OFF (or trickle)",
                                    "Battery charging ON">>],
            [bit |-> 6, msgs |-> <<"Battery-backup is enabled",
                                    "Battery-backup is disabled">>],
            [bit |-> 7, msgs |-> <<"Battery IS present",
                                    "Battery is NOT present">>] >>,
          adtl_info |-> (
            0 :> "battery fully charged" @@
            1 :> "battery not fully charged" @@
            2 :> "battery charge critically low" @@
            3 :> "battery completely drained"),
          adtl_func |-> [shift |-> 2, mask |-> 3] ] @@
    LED :>
        [ bits |-> <<
            [bit |-> 0, msgs |-> <<"",
                                    "">>],
            [bit |-> 6, msgs |-> <<"LED is active",
                                    "LED is inactive">>],
            [bit |-> 7, msgs |-> <<"LED is present",
                                    "LED is NOT present">>] >> ] @@
    CBU :>
        [ bits |-> <<
            [bit |-> 0, msgs |-> <<"Flash Device functioning normally",
                                    "Flash Device malfunctioning">>],
            [bit |-> 6, msgs |-> <<"Flash Device is enabled",
                                    "Flash Device is disabled">>],
            [bit |-> 7, msgs |-> <<"Flash Device is present",
                                    "Flash Device is NOT present">>] >> ] @@
    NET_IF :>
        [ bits |-> <<
            [bit |-> 0, msgs |-> <<"Host Board IS present",
                                    "">>],
            [bit |-> 7, msgs |-> <<"Host Board IS present",
                                    "Host Board is NOT present">>] >> ] @@
    BACKPLANE :>
        [ bits |-> <<
            [bit |-> 0, msgs |-> <<"Midplane/Backplane",
                                    "">>] >> ] @@
    SLOT :>
        [ bits |-> <<
            [bit |-> 0, msgs |-> <<"Slot sense circuitry functioning normally",
                                    "Slot sense circuitry malfunctioning">>],
            [bit |-> 1, msgs |-> <<"Device in slot has not been marked \"needing replacement\" or a replacement drive has been inserted",
                                    "Device in slot has been marked BAD and is awaiting replacement">>],
            [bit |-> 2, msgs |-> <<"Slot is activated so that drive can be accessed",
                                    "Slot NOT activated">>],
            [bit |-> 6, msgs |-> <<"Slot is NOT ready for insertion/removal",
                                    "Slot is ready for insertion/removal">>],
            [bit |-> 7, msgs |-> <<"Device inserted in slot",
                                    "Slot is empty">>] >> ] @@
    ENCLOSURE_DRAWER :>
        [ bits |-> <<
            [bit |-> 0, msgs |-> <<"Enclosure Drawer functioning normally",
                                    "Enclosure Drawer malfunctioning">>],
            [bit |-> 6, msgs |-> <<"Enclosure Drawer is closed",
                                    "Enclosure Drawer is opened">>],
            [bit |-> 7, msgs |-> <<"Enclosure Drawer is present",
                                    "Enclosure Drawer is NOT present">>] >> ] @@
    ENCLOSURE_MGMNT :>
        [ bits |-> <<
            [bit |-> 0, msgs |-> <<"Enclosure Management Services Controller functioning normally",
                                    "Enclosure Management Services Controller malfunctioning">>],
            [bit |-> 6, msgs |-> <<"Enclosure Management Services Controller is closed",
                                    "Enclosure Management Services Controller is opened">>],
            [bit |-> 7, msgs |-> <<"Enclosure Management Services Controller is present",
                                    "Enclosure Management Services Controller is NOT present">>] >> ]

\* DISK_STATUS_MAP of infortrend_disks_a.py
DISK_STATUS_MAP_A ==
    0 :> "New Drive" @@
    1 :> "On-Line Drive" @@
    2 :> "Used Drive" @@
    3 :> "Spare Drive" @@
    4 :> "Drive Initialization in Progress" @@
    5 :> "Drive Rebuild in Progress" @@
    6 :> "Add Drive to Logical Drive in Progress" @@
    9 :> "Global Spare Drive" @@
    17 :> "Drive is in process of Cloning another Drive" @@
    18 :> "Drive is a valid Clone of another Drive" @@
    19 :> "Drive is in process of Copying from another Drive (for Copy/Replace LD Expansion function)" @@
    63 :> "Drive Absent" @@
    128 :> "SCSI Device (Type 0)" @@
    129 :> "SCSI Device (Type 1)" @@
    130 :> "SCSI Device (Type 2)" @@
    131 :> "SCSI Device (Type 3)" @@
    132 :> "SCSI Device (Type 4)" @@
    133 :> "SCSI Device (Type 5)" @@
    134 :> "SCSI Device (Type 6)" @@
    135 :> "SCSI Device (Type 7)" @@
    136 :> "SCSI Device (Type 8)" @@
    137 :> "SCSI Device (Type 9)" @@
    138 :> "SCSI Device (Type 10)" @@
    139 :> "SCSI Device (Type 11)" @@
    140 :> "SCSI Device (Type 12)" @@
    141 :> "SCSI Device (Type 13)" @@
    142 :> "SCSI Device (Type 14)" @@
    143 :> "SCSI Device (Type 15)" @@
    252 :> "Missing Global Spare Drive" @@
    253 :> "Missing Spare Drive" @@
    254 :> "Missing Drive" @@
    255 :> "Failed Drive"

\* DISK_STATUS_MAP of infortrend_disks_b.py
DISK_STATUS_MAP_B ==
    0 :> "New Drive" @@
    1 :> "On-Line Drive" @@
    2 :> "Used Drive" @@
    3 :> "Spare Drive" @@
    4 :> "Drive Initialization in Progress" @@
    5 :> "Drive Rebuild in Progress" @@
    6 :> "Add Drive to Logical Drive in Progress" @@
    9 :> "Global Spare Drive" @@
    17 :> "Drive is in process of Cloning another Drive" @@
    18 :> "Drive is a valid Clone of another Drive" @@
    19 :> "Drive is in process of Copying from another Drive (for Copy/Replace LD Expansion function)" @@
    63 :> "Drive Absent" @@
    128 :> "SCSI Device (Type 0)" @@
    129 :> "SCSI Device (Type 1)" @@
    130 :> "SCSI Device (Type 2)" @@
    131 :> "SCSI Device (Type 3)" @@
    132 :> "SCSI Device (Type 4)" @@
    133 :> "SCSI Device (Type 5)" @@
    134 :> "SCSI Device (Type 6)" @@
    135 :> "SCSI Device (Type 7)" @@
    136 :> "SCSI Device (Type 8)" @@
    137 :> "SCSI Device (Type 9)" @@
    138 :> "SCSI Device (Type 10)" @@
    139 :> "SCSI Device (Type 11)" @@
    140 :> "SCSI Device (Type 12)" @@
    141 :> "SCSI Device (Type 13)" @@
    142 :> "SCSI Device (Type 14)" @@
    143 :> "SCSI Device (Type 15)" @@
    252 :> "Missing Global Spare Drive" @@
    253 :> "Missing Spare Drive" @@
    254 :> "Missing Drive" @@
    255 :> "Failed Drive"

\* LDRIVE_STATE_INFO_MAP of infortrend_logical_drives_a.py
LDRIVE_STATE_INFO_MAP ==
    0 :> "Good" @@
    1 :> "Rebuilding" @@
    2 :> "Initializing" @@
    3 :> "Degraded" @@
    4 :> "Dead" @@
    5 :> "Invalid" @@
    6 :> "Incomplete" @@
    7 :> "Drive Missing"

\* DRIVE_STATE_INFO_MAP of infortrend_logical_drives_b.py
DRIVE_STATE_INFO_MAP ==
    0 :> "Good" @@
    1 :> "Rebuilding" @@
    2 :> "Initializing" @@
    3 :> "Degraded" @@
    4 :> "Dead" @@
    5 :> "Invalid" @@
    6 :> "Incomplete" @@
    7 :> "Drive Missing" @@
    64 :> "Good"

\* SENSORS_WITH_METRIC of infortrend_chassis_a.py
SENSORS_WITH_METRIC_A ==
    TEMPERATURE :> [divider |-> 10, name |-> "temp"] @@
    VOLTAGE :> [divider |-> 1000, name |-> "voltage"]

\* faulty variant of SENSORS_WITH_METRIC (dialect B): the two dividers swapped
SENSORS_WITH_METRIC_B_swapped ==
    TEMPERATURE :> [divider |-> 1000, name |-> "temp"] @@
    VOLTAGE :> [divider |-> 10, name |-> "voltage"]

\* SENSORS_WITH_METRIC of infortrend_chassis_b.py
SENSORS_WITH_METRIC_B ==
    TEMPERATURE :> [divider |-> 10, name |-> "temp"] @@
    VOLTAGE :> [divider |-> 1000, name |-> "voltage"]

\* bits[bit] is defined
HasBit(bits, bit) == \E i \in DOMAIN bits : bits[i].bit = bit
\* bits[bit]: the (clear, set) message pair of a declared bit
BitMsgs(bits, bit) == bits[CHOOSE i \in DOMAIN bits : bits[i].bit = bit].msgs

-----------------------------------------------------------------------------
\* Chassis sensors, dialect A

\* "submit metrics for sensors where this makes sense"
submit_metric_a(sensor_data) ==
    LET sensor_type == sensor_data.sensor_type
    IN  IF HasKey(SENSORS_WITH_METRIC_A, sensor_type)
        THEN LET name == SENSORS_WITH_METRIC_A[sensor_type.int].name
                 divider == SENSORS_WITH_METRIC_A[sensor_type.int].divider
             IN  IF IsInt(sensor_data.metric_value_raw)
                 THEN Done(<<Metric(name, truediv(sensor_data.metric_value_raw.int, divider))>>)
                 ELSE Raise(<<>>, "TypeError")   \* '' / int
        ELSE Done(<<>>)

\* a loop that keeps the worst verdict: CRIT with the message of the last
\* set bit below 6 if there is one, else the pair of the last declared bit
bit_loop_a_worst(bits, i, sensor_status, verdict) ==
    LET crit == {j \in i..Len(bits) : bit_of(sensor_status, bits[j].bit) = 1 /\ bits[j].bit < 6}
        last == CHOOSE j \in crit : \A k \in crit : k <= j
    IN  IF i > Len(bits) THEN verdict
        ELSE IF crit # {} THEN <<"CRIT", bits[last].msgs[2]>>
        ELSE <<"OK", bits[Len(bits)].msgs[bit_of(sensor_status, bits[Len(bits)].bit) + 1]>>

\* the for loop over the declared bits: every iteration overwrites the pair
\* (extended_status, status_info_text); the pair left by the last one is returned
RECURSIVE bit_loop_a(_, _, _, _)
bit_loop_a(bits, i, sensor_status, verdict) ==
    IF i > Len(bits) THEN verdict
    ELSE LET bit == bits[i].bit
             bit_set == bit_of(sensor_status, bit)
         IN  bit_loop_a(bits, i + 1, sensor_status,
                 IF bit_set = 1 /\ bit < 6
                 THEN <<"CRIT", bits[i].msgs[bit_set + 1]>>
                 ELSE <<"OK", bits[i].msgs[bit_set + 1]>>)

\* results that consult the 'additional info' of the type: when the sub-code
\* adtl_func(status) has an entry of level 2 in adtl_info, the Result is CRIT
\* with the text of that entry
submit_results_a_adtl(sensor_data) ==
    LET sensor_status == sensor_data.sensor_status
        sensor_type == sensor_data.sensor_type
    IN  IF ~HasKey(STATUS_INFO_MAP_A, sensor_type)
        THEN Raise(<<>>, "KeyError")
        ELSE IF "bits" \notin DOMAIN STATUS_INFO_MAP_A[sensor_type.int]
        THEN Raise(<<>>, "KeyError")
        ELSE LET entry == STATUS_INFO_MAP_A[sensor_type.int]
                 bits == entry.bits
             IN  IF sensor_status = PyInt(0)
                 THEN IF HasBit(bits, 0)
                      THEN yield(Result("OK", BitMsgs(bits, 0)[1]))
                      ELSE Raise(<<>>, "KeyError")
                 ELSE IF Len(bits) > 0 /\ ~IsInt(sensor_status)
                 THEN Raise(<<>>, "TypeError")
                 ELSE LET verdict == bit_loop_a(bits, 1, sensor_status.int, <<"OK", "">>)
                          code == IF "adtl_func" \in DOMAIN entry /\ sensor_status.int >= 0
                                  THEN (sensor_status.int \div 2 ^ entry.adtl_func.shift)
                                       % (entry.adtl_func.mask + 1)
                                  ELSE 0 - 1
                      IN  IF /\ "adtl_info" \in DOMAIN entry
                             /\ code \in DOMAIN entry.adtl_info
                             /\ entry.adtl_info[code][1] = 2
                          THEN yield(Result("CRIT", entry.adtl_info[code][2]))
                          ELSE yield(Result(verdict[1], verdict[2]))

\* "submit check results"
submit_results_a(sensor_data) ==
    LET sensor_status == sensor_data.sensor_status
        sensor_type == sensor_data.sensor_type
    IN  IF ~HasKey(STATUS_INFO_MAP_A, sensor_type)
        THEN Raise(<<>>, "KeyError")            \* STATUS_INFO_MAP[sensor_type]
        ELSE IF "bits" \notin DOMAIN STATUS_INFO_MAP_A[sensor_type.int]
        THEN Raise(<<>>, "KeyError")            \* [...]['bits']
        ELSE LET bits == STATUS_INFO_MAP_A[sensor_type.int].bits
             IN  IF sensor_status = PyInt(0)
                 THEN IF HasBit(bits, 0)
                      THEN yield(Result("OK", BitMsgs(bits, 0)[1]))
                      ELSE Raise(<<>>, "KeyError")
                 ELSE IF Len(bits) > 0 /\ ~IsInt(sensor_status)
                 THEN Raise(<<>>, "TypeError")  \* '' & int
                 ELSE LET verdict == bit_loop_a(bits, 1, sensor_status.int, <<"OK", "">>)
                      IN  yield(Result(verdict[1], verdict[2]))

check_infortrend_chassis_sensors_a(it, sec) ==
    LET sensor_data == get(sec, it)
    IN  IF isinstance(sensor_data, "InfortrendChassisSensorSection")
        THEN Then(submit_metric_a(sensor_data), submit_results_a(sensor_data))
        ELSE yield(Result("UNKNOWN", "cannot parse: " \o format(sensor_data)))

-----------------------------------------------------------------------------
\* Chassis sensors, dialect B

submit_metric_b(sensor_data) ==
    LET sensor_type == sensor_data.sensor_type
    IN  IF HasKey(SENSORS_WITH_METRIC_B, sensor_type)
        THEN LET name == SENSORS_WITH_METRIC_B[sensor_type.int].name
                 divider == SENSORS_WITH_METRIC_B[sensor_type.int].divider
             IN  IF IsInt(sensor_data.metric_value_raw)
                 THEN Done(<<Metric(name, truediv(sensor_data.metric_value_raw.int, divider))>>)
                 ELSE Raise(<<>>, "TypeError")   \* '' / int
        ELSE Done(<<>>)

\* the Result one iteration of the for loop over the declared bits constructs
bit_result_b(entry, sensor_status, sensor_type) ==
    LET bit_set == bit_of(sensor_status, entry.bit)
        first == IF bit_set = 1
                 THEN <<"CRIT", entry.msgs[bit_set + 1] \o " (!)">>
                 ELSE <<"OK", entry.msgs[bit_set + 1]>>
        final == IF sensor_status = 64
                 THEN IF sensor_type = LED
                      THEN <<"OK", first[2] \o ", ">>
                      ELSE <<"CRIT", ToString(sensor_status) \o " " \o first[2]>>
                 ELSE first
    IN  Result(final[1], final[2])

\* a loop that applies the LED branch of the status 64 override to every type
bit_loop_b_all_led(bits, sensor_status, sensor_type) ==
    yield_each([i \in DOMAIN bits |-> bit_result_b(bits[i], sensor_status, LED)])

\* the for loop: one Result per declared bit, in declaration order, as long
\* as the constructor takes the text
bit_loop_b(bits, sensor_status, sensor_type) ==
    yield_each([i \in DOMAIN bits |-> bit_result_b(bits[i], sensor_status, sensor_type)])

\* results without the test for status 255: the status is decoded bit by bit
submit_results_b_no_255(sensor_data) ==
    LET sensor_status == sensor_data.sensor_status
        sensor_type == sensor_data.sensor_type
    IN  IF sensor_status = PyInt(0)
        THEN IF ~HasKey(STATUS_INFO_MAP_B, sensor_type)
             THEN Raise(<<>>, "KeyError")
             ELSE IF "bits" \notin DOMAIN STATUS_INFO_MAP_B[sensor_type.int]
             THEN Raise(<<>>, "KeyError")
             ELSE IF ~HasBit(STATUS_INFO_MAP_B[sensor_type.int].bits, 0)
             THEN Raise(<<>>, "KeyError")
             ELSE yield(Result("OK", BitMsgs(STATUS_INFO_MAP_B[sensor_type.int].bits, 0)[1]))
        ELSE IF ~HasKey(STATUS_INFO_MAP_B, sensor_type)
        THEN Raise(<<>>, "KeyError")
        ELSE IF "bits" \notin DOMAIN STATUS_INFO_MAP_B[sensor_type.int]
        THEN Raise(<<>>, "KeyError")
        ELSE LET bits == STATUS_INFO_MAP_B[sensor_type.int].bits
             IN  IF Len(bits) > 0 /\ ~IsInt(sensor_status)
                 THEN Raise(<<>>, "TypeError")
                 ELSE bit_loop_b(bits, sensor_status.int, sensor_type.int)

submit_results_b(sensor_data) ==
    LET sensor_status == sensor_data.sensor_status
        sensor_type == sensor_data.sensor_type
    IN  IF sensor_status = PyInt(0)
        THEN IF ~HasKey(STATUS_INFO_MAP_B, sensor_type)
             THEN Raise(<<>>, "KeyError")
             ELSE IF "bits" \notin DOMAIN STATUS_INFO_MAP_B[sensor_type.int]
             THEN Raise(<<>>, "KeyError")
             ELSE IF ~HasBit(STATUS_INFO_MAP_B[sensor_type.int].bits, 0)
             THEN Raise(<<>>, "KeyError")
             ELSE yield(Result("OK", BitMsgs(STATUS_INFO_MAP_B[sensor_type.int].bits, 0)[1]))
        ELSE IF sensor_status = PyInt(255)
        THEN yield(Result("UNKNOWN", "Status unknown"))
        ELSE IF ~HasKey(STATUS_INFO_MAP_B, sensor_type)
        THEN Raise(<<>>, "KeyError")
        ELSE IF "bits" \notin DOMAIN STATUS_INFO_MAP_B[sensor_type.int]
        THEN Raise(<<>>, "KeyError")
        ELSE LET bits == STATUS_INFO_MAP_B[sensor_type.int].bits
             IN  IF Len(bits) > 0 /\ ~IsInt(sensor_status)
                 THEN Raise(<<>>, "TypeError")  \* '' & int
                 ELSE bit_loop_b(bits, sensor_status.int, sensor_type.int)

check_infortrend_chassis_sensors_b(it, sec) ==
    LET sensor_data == get(sec, it)
    IN  IF isinstance(sensor_data, "InfortrendChassisSensorSection")
        THEN Then(submit_metric_b(sensor_data), submit_results_b(sensor_data))
        ELSE yield(Result("UNKNOWN", "cannot parse: " \o format(sensor_data)))

-----------------------------------------------------------------------------
\* Disks

InfortrendDiskSection_a(slot, state, description) ==
    [cls |-> "InfortrendDiskSection", slot |-> slot, state |-> state,
     description |-> description]

InfortrendDiskSection_b(slot, state) ==
    [cls |-> "InfortrendDiskSection", slot |-> slot, state |-> state]

\* faulty variant of check_infortrend_disks: no guard for a state that is not
\* a key of DISK_STATUS_MAP, so that the table lookup raises
check_infortrend_disks_unguarded(it, sec) ==
    LET disk_data == get(sec, it)
    IN  IF isinstance(disk_data, "InfortrendDiskSection")
        THEN LET state == disk_data.state
                 state_description == disk_data.description
             IN  IF ~HasKey(DISK_STATUS_MAP_A, state)
                 THEN Raise(<<>>, "KeyError")
                 ELSE IF state.int \in {1, 3, 9}
                 THEN yield(Result("OK", state_description \o DISK_STATUS_MAP_A[state.int]))
                 ELSE IF state.int > 63
                 THEN yield(Result("CRIT", state_description \o DISK_STATUS_MAP_A[state.int]))
                 ELSE yield(Result("WARN", state_description \o DISK_STATUS_MAP_A[state.int]))
        ELSE yield(Result("UNKNOWN", format(disk_data) \o " is not valid"))

check_infortrend_disks(it, sec) ==
    LET disk_data == get(sec, it)
    IN  IF isinstance(disk_data, "InfortrendDiskSection")
        THEN LET state == disk_data.state
                 state_description == disk_data.description
             IN  IF ~HasKey(DISK_STATUS_MAP_A, state)
                 THEN yield(Result("UNKNOWN", state_description \o "Status is " \o format(state)))
                 ELSE IF state.int \in {1, 3, 9}
                 THEN yield(Result("OK", state_description \o DISK_STATUS_MAP_A[state.int]))
                 ELSE IF state.int > 63
                 THEN yield(Result("CRIT", state_description \o DISK_STATUS_MAP_A[state.int]))
                 ELSE yield(Result("WARN", state_description \o DISK_STATUS_MAP_A[state.int]))
        ELSE yield(Result("UNKNOWN", format(disk_data) \o " is not valid"))

\* faulty variant of check_infortrend_disks_b: the OK set of dialect A, {1, 3, 9}
check_infortrend_disks_b_ok_set_a(it, sec) ==
    LET disk_data == get(sec, it)
    IN  IF isinstance(disk_data, "InfortrendDiskSection")
        THEN LET state == disk_data.state
             IN  IF ~HasKey(DISK_STATUS_MAP_B, state)
                 THEN yield(Result("UNKNOWN", "Status is " \o format(state)))
                 ELSE IF state.int \in {1, 3, 9}
                 THEN yield(Result("OK", DISK_STATUS_MAP_B[state.int]))
                 ELSE IF state.int > 63
                 THEN yield(Result("CRIT", DISK_STATUS_MAP_B[state.int]))
                 ELSE yield(Result("WARN", DISK_STATUS_MAP_B[state.int]))
        ELSE yield(Result("UNKNOWN", format(disk_data) \o " is not valid"))

check_infortrend_disks_b(it, sec) ==
    LET disk_data == get(sec, it)
    IN  IF isinstance(disk_data, "InfortrendDiskSection")
        THEN LET state == disk_data.state
             IN  IF ~HasKey(DISK_STATUS_MAP_B, state)
                 THEN yield(Result("UNKNOWN", "Status is " \o format(state)))
                 ELSE IF state.int \in {1, 3, 9, 63}
                 THEN yield(Result("OK", DISK_STATUS_MAP_B[state.int]))
                 ELSE IF state.int > 63
                 THEN yield(Result("CRIT", DISK_STATUS_MAP_B[state.int]))
                 ELSE yield(Result("WARN", DISK_STATUS_MAP_B[state.int]))
        ELSE yield(Result("UNKNOWN", format(disk_data) \o " is not valid"))

-----------------------------------------------------------------------------
\* Logical drives

InfortrendLogicalDriveSection(state) ==
    [cls |-> "InfortrendLogicalDriveSection", sensor_state |-> state]

\* faulty variant of check_infortrend_logical_drives_a: the severity is decided
\* on the unmasked state, so that an off-line drive is always CRIT
check_infortrend_logical_drives_a_unmasked(it, sec) ==
    LET ld_section == get(sec, it)
    IN  IF isinstance(ld_section, "InfortrendLogicalDriveSection")
        THEN IF ~IsInt(ld_section.sensor_state)
             THEN Raise(<<>>, "TypeError")
             ELSE LET raw == ld_section.sensor_state.int
                      offline == bit_of(raw, 7) = 1
                      ld_state == IF offline THEN raw % 128 ELSE raw
                      result_summary == IF offline THEN "Logical Drive Off-line (RW)" ELSE ""
                  IN  IF ld_state \notin DOMAIN LDRIVE_STATE_INFO_MAP
                      THEN Raise(<<>>, "KeyError")
                      ELSE yield(Result(
                               IF raw = 0 THEN "OK"
                               ELSE IF raw \in {1, 2} THEN "WARN"
                               ELSE IF raw > 2 THEN "CRIT"
                               ELSE "UNKNOWN",
                               result_summary \o " " \o LDRIVE_STATE_INFO_MAP[ld_state]))
        ELSE yield(Result("UNKNOWN", "cannot parse: " \o format(ld_section)))

check_infortrend_logical_drives_a(it, sec) ==
    LET ld_section == get(sec, it)
    IN  IF isinstance(ld_section, "InfortrendLogicalDriveSection")
        THEN IF ~IsInt(ld_section.sensor_state)
             THEN Raise(<<>>, "TypeError")      \* '' & 128
             ELSE LET raw == ld_section.sensor_state.int
                      offline == bit_of(raw, 7) = 1        \* ld_state & 128 == 128
                      ld_state == IF offline THEN raw % 128 ELSE raw
                      result_summary == IF offline THEN "Logical Drive Off-line (RW)" ELSE ""
                  IN  IF ld_state \notin DOMAIN LDRIVE_STATE_INFO_MAP
                      THEN Raise(<<>>, "KeyError")  \* LDRIVE_STATE_INFO_MAP[ld_state]
                      ELSE yield(Result(
                               IF ld_state = 0 THEN "OK"
                               ELSE IF ld_state \in {1, 2} THEN "WARN"
                               ELSE IF ld_state > 2 THEN "CRIT"
                               ELSE "UNKNOWN",
                               result_summary \o " " \o LDRIVE_STATE_INFO_MAP[ld_state]))
        ELSE yield(Result("UNKNOWN", "cannot parse: " \o format(ld_section)))

check_infortrend_logical_drives_b(it, sec) ==
    LET ld_section == get(sec, it)
    IN  IF isinstance(ld_section, "InfortrendLogicalDriveSection")
        THEN IF ~IsInt(ld_section.sensor_state)
             THEN Raise(<<>>, "TypeError")      \* '' & 128
             ELSE LET raw == ld_section.sensor_state.int
                      offline == bit_of(raw, 7) = 1        \* ld_state & 128 == 128
                      ld_state == IF offline THEN raw % 128 ELSE raw
                      result_summary == IF offline THEN "Logical Drive Off-line (RW)" ELSE ""
                  IN  IF ld_state \notin DOMAIN DRIVE_STATE_INFO_MAP
                      THEN Raise(<<Result("UNKNOWN", "Status is " \o ToString(ld_state))>>,
                                 "KeyError")    \* DRIVE_STATE_INFO_MAP[ld_state]
                      ELSE yield(Result(
                               IF ld_state \in {0, 64} THEN "OK"
                               ELSE IF ld_state \in {1, 2} THEN "WARN"
                               ELSE IF ld_state \in {3, 4, 5, 6, 7} THEN "CRIT"
                               ELSE "UNKNOWN",
                               IF result_summary # ""
                               THEN result_summary \o ", " \o DRIVE_STATE_INFO_MAP[ld_state]
                               ELSE DRIVE_STATE_INFO_MAP[ld_state]))
        ELSE yield(Result("UNKNOWN", "cannot parse: " \o format(ld_section)))

-----------------------------------------------------------------------------
\* Strings of the SNMP rows, and int() on them

Char(s, i) == SubSeq(s, i, i)

Digits == {"0", "1", "2", "3", "4", "5", "6", "7", "8", "9"}

DigitValue(c) == CHOOSE d \in 0..9 : ToString(d) = c

\* the whitespace int() ignores around the literal, among the code points up
\* to U+00FF: tab, newline, vertical tab, form feed, carriage return, space,
\* U+0085 and U+00A0
Whitespace ==
    { "\t", "\n", "", "\f", "\r", " ", "", " " }

\* the literal int() reads: leading and trailing whitespace removed
RECURSIVE lstrip(_)
lstrip(s) ==
    IF Len(s) > 0 /\ Char(s, 1) \in Whitespace THEN lstrip(SubSeq(s, 2, Len(s))) ELSE s
RECURSIVE rstrip(_)
rstrip(s) ==
    IF Len(s) > 0 /\ Char(s, Len(s)) \in Whitespace
    THEN rstrip(SubSeq(s, 1, Len(s) - 1))
    ELSE s
strip(s) == rstrip(lstrip(s))

\* the literal of int(s) without its sign: whitespace stripped, one leading + or - dropped
int_digits(s) ==
    LET t == strip(s)
    IN  IF Len(t) > 0 /\ Char(t, 1) \in {"+", "-"} THEN SubSeq(t, 2, Len(t)) ELSE t

int_negative(s) == LET t == strip(s) IN Len(t) > 0 /\ Char(t, 1) = "-"

\* int(s) accepts s: decimal digits, single underscores allowed between digits
int_accepts(s) ==
    LET d == int_digits(s)
    IN  /\ Len(d) > 0
        /\ \A i \in 1..Len(d) : Char(d, i) \in Digits \cup {"_"}
        /\ Char(d, 1) # "_"
        /\ Char(d, Len(d)) # "_"
        /\ \A i \in 1..(Len(d) - 1) : ~(Char(d, i) = "_" /\ Char(d, i + 1) = "_")

RECURSIVE digits_value(_, _, _)
digits_value(d, i, acc) ==
    IF i > Len(d) THEN acc
    ELSE IF Char(d, i) = "_" THEN digits_value(d, i + 1, acc)
    ELSE digits_value(d, i + 1, 10 * acc + DigitValue(Char(d, i)))

\* the value of int(s), for a string int() accepts
int_value(s) ==
    LET n == digits_value(int_digits(s), 1, 0)
    IN  IF int_negative(s) THEN 0 - n ELSE n

\* saveint: int(some_value), or '' when int() raises ValueError
saveint(some_value) ==
    IF int_accepts(some_value) THEN PyInt(int_value(some_value)) ELSE Absent

\* the decimal digits of a natural number, most significant first
RECURSIVE digits_of(_)
digits_of(n) == IF n < 10 THEN <<n>> ELSE Append(digits_of(n \div 10), n % 10)

\* the digits written out
RECURSIVE digits_str(_)
digits_str(d) == IF d = <<>> THEN "" ELSE ToString(Head(d)) \o digits_str(Tail(d))

RECURSIVE zeros(_)
zeros(n) == IF n <= 0 THEN "" ELSE "0" \o zeros(n - 1)

\* the number of bits of a natural number
RECURSIVE bit_length(_)
bit_length(n) == IF n = 0 THEN 0 ELSE 1 + bit_length(n \div 2)

\* half of a decimal number given by its digits, one digit longer
halve(d) ==
    <<>> \o [i \in 1..Len(d) + 1 |->
                ((IF i <= Len(d) THEN d[i] ELSE 0)
                    + (IF i > 1 /\ d[i - 1] % 2 = 1 THEN 10 ELSE 0)) \div 2]
RECURSIVE halve_times(_, _)
halve_times(d, n) ==
    IF n = 0 THEN d
    ELSE IF n = 1 THEN halve(d)
    ELSE LET part == halve_times(d, n \div 2)
         IN  IF Len(part) > 0 THEN halve_times(part, n - n \div 2) ELSE part

first_of(S) == CHOOSE i \in S : \A j \in S : i <= j

\* of two digit sequences of one length: the digits of a after position p
\* make a smaller number than those of b
less_after(a, b, p) ==
    LET differ == {i \in p + 1..Len(a) : a[i] # b[i]}
    IN  differ # {} /\ a[first_of(differ)] < b[first_of(differ)]

\* value cut after position p is within mlo below value (the cut reads back
\* as the float)
low_ok(value, mlo, p) == (\E i \in 1..p : mlo[i] # 0) \/ less_after(value, mlo, p)

\* value raised to the next digit at position p is within mhi above value
high_ok(value, mhi, p) ==
    (\E i \in 1..p : mhi[i] # 0)
        \/ less_after(<<>> \o [i \in 1..Len(mhi) |-> 9 - mhi[i]], value, p)

\* the first position from p on at which the cut or the raised cut reads back
RECURSIVE last_digit(_, _, _, _)
last_digit(value, mlo, mhi, p) ==
    IF low_ok(value, mlo, p) \/ high_ok(value, mhi, p) THEN p
    ELSE last_digit(value, mlo, mhi, p + 1)

\* the cut is raised: when only the raised cut reads back, or when both do
\* and the raised one is nearer (on a tie the one with the even last digit)
round_up(value, mlo, mhi, p) ==
    IF ~low_ok(value, mlo, p) THEN TRUE
    ELSE IF ~high_ok(value, mhi, p) \/ p = Len(value) THEN FALSE
    ELSE IF value[p + 1] # 5 THEN value[p + 1] > 5
    ELSE (\E i \in p + 2..Len(value) : value[i] # 0) \/ value[p] % 2 = 1

\* a digit sequence plus one in its last place
RECURSIVE increment(_)
increment(d) ==
    IF d = <<>> THEN <<1>>
    ELSE IF d[Len(d)] < 9 THEN [d EXCEPT ![Len(d)] = @ + 1]
    ELSE Append(increment(SubSeq(d, 1, Len(d) - 1)), 0)

RECURSIVE strip_zeros(_)
strip_zeros(d) ==
    IF Len(d) > 1 /\ d[Len(d)] = 0 THEN strip_zeros(SubSeq(d, 1, Len(d) - 1)) ELSE d

\* the shortest digits that read back as the float num / 2 ^ shift (num > 0),
\* and the place of the decimal point in them (the float is 0.digits * 10 ^ decpt).
\* The float has 53 bits: the floats next to it are 2 ^ -(half - 1) away,
\* the one below a power of two half as far, and below 2 ^ -1022 the distance
\* stays 2 ^ -1074. value, mhi and mlo are the float and half the distance
\* above and below, as digits with the point after the first width digits
shortest(num, shift) ==
    LET bits == bit_length(num)
        subnormal == 54 + shift - bits >= 1075
        half == IF subnormal THEN 1075 ELSE 54 + shift - bits
        boundary == ~subnormal /\ num = 2 ^ (bits - 1)
        width == Len(digits_of(num))
        one == [i \in 1..width |-> IF i = width THEN 1 ELSE 0]
        value == halve_times(digits_of(num), shift) \o [i \in 1..half + 1 - shift |-> 0]
        halved == halve_times(one, half)
        mhi == Append(halved, 0)
        mlo == IF boundary THEN halve(halved) ELSE mhi
        start == first_of({i \in 1..Len(value) : value[i] # 0})
        p == last_digit(value, mlo, mhi, start)
        cut == SubSeq(value, start, p)
        kept == IF round_up(value, mlo, mhi, p) THEN increment(cut) ELSE cut
    IN  [digits |-> strip_zeros(kept),
         decpt |-> width - start + 1 + (IF Len(kept) > Len(cut) THEN 1 ELSE 0)]

\* repr of a float: the shortest digits that read back as it, with an
\* exponent from 1e16 on and below 0.0001, else positional with at least one
\* digit after the point
float_repr(negative, num, shift) ==
    LET sign == IF negative THEN "-" ELSE ""
        short == shortest(num, shift)
        digits == digits_str(short.digits)
        decpt == short.decpt
        exponent == Abs(decpt - 1)
    IN  IF num = 0 THEN sign \o "0.0"
        ELSE IF decpt <= 0 - 4 \/ decpt > 16
        THEN sign \o SubSeq(digits, 1, 1)
                 \o (IF Len(digits) > 1 THEN "." \o SubSeq(digits, 2, Len(digits)) ELSE "")
                 \o "e" \o (IF decpt > 16 THEN "+" ELSE "-")
                 \o (IF exponent < 10 THEN "0" ELSE "") \o ToString(exponent)
        ELSE IF decpt <= 0 THEN sign \o "0." \o zeros(0 - decpt) \o digits
        ELSE IF decpt >= Len(digits) THEN sign \o digits \o zeros(decpt - Len(digits)) \o ".0"
        ELSE sign \o SubSeq(digits, 1, decpt) \o "." \o SubSeq(digits, decpt + 1, Len(digits))

\* str(v) of an int, a float or a str
str(v) ==
    IF IsInt(v) THEN ToString(v.int)
    ELSE IF IsFloat(v) THEN float_repr(v.float.negative, v.float.num, v.float.shift)
    ELSE v.str

\* the end of the run of digits that starts at position i of s
RECURSIVE digits_end(_, _)
digits_end(s, i) ==
    IF i <= Len(s) /\ Char(s, i) \in Digits THEN digits_end(s, i + 1) ELSE i

\* re.sub(r'\((\d+)\)', lambda match: f' {match.group(1)}', name), scanning from i
RECURSIVE re_sub_parenthesis(_, _)
re_sub_parenthesis(name, i) ==
    IF i > Len(name) THEN ""
    ELSE LET j == digits_end(name, i + 1)
         IN  IF /\ Char(name, i) = "("
                /\ j > i + 1
                /\ j <= Len(name)
                /\ Char(name, j) = ")"
             THEN " " \o SubSeq(name, i + 1, j - 1) \o re_sub_parenthesis(name, j + 1)
             ELSE Char(name, i) \o re_sub_parenthesis(name, i + 1)

\* outcome of a function call: the value returned, or the exception raised
Return(v) == [value |-> v, raised |-> "none"]
Throw(exc) == [value |-> None, raised |-> exc]

get_infortrend_chassis_sensor_name(name, sensor_id) ==
    IF ~IsInt(saveint(sensor_id))
    THEN Throw("TypeError")                     \* '' > 0
    ELSE IF saveint(sensor_id).int > 0
    THEN Return("ID " \o sensor_id \o " " \o name)
    ELSE Return(re_sub_parenthesis(name, 1))

-----------------------------------------------------------------------------
\* Row parsers.  A dict is its mapping and the insertion order of its keys.

EmptyDict == [map |-> <<>>, order |-> <<>>]

\* faulty variant of setdefault: a later row overwrites the stored record
setdefault_overwrite(parsed, key, record) ==
    IF key \in DOMAIN parsed.map
    THEN [map |-> [parsed.map EXCEPT ![key] = record], order |-> parsed.order]
    ELSE [map |-> parsed.map @@ (key :> record), order |-> Append(parsed.order, key)]

\* parsed.setdefault(key, record)
setdefault(parsed, key, record) ==
    IF key \in DOMAIN parsed.map THEN parsed
    ELSE [map |-> parsed.map @@ (key :> record), order |-> Append(parsed.order, key)]

\* what one iteration of a parser loop makes of its row
Entry(key, record) == Return([skip |-> FALSE, key |-> key, record |-> record])
Skip == Return([skip |-> TRUE])

\* the for loop of a parser over the outcomes of its rows: the first exception
\* ends the parser, a skipped row is passed over, any other row is stored
\* with setdefault
RECURSIVE parse_loop(_, _, _)
parse_loop(rows, i, parsed) ==
    IF i > Len(rows) THEN Return(parsed)
    ELSE IF rows[i].raised # "none" THEN Throw(rows[i].raised)
    ELSE IF rows[i].value.skip THEN parse_loop(rows, i + 1, parsed)
    ELSE parse_loop(rows, i + 1,
                    setdefault(parsed, rows[i].value.key, rows[i].value.record))

\* chassis A row: [name, status, type, value, unit, id]
row_chassis_a(line) ==
    IF Len(line) < 6 THEN Throw("IndexError")   \* line[0] or line[5]
    ELSE LET name == get_infortrend_chassis_sensor_name(line[1], line[6])
         IN  IF name.raised # "none" THEN Throw(name.raised)
             ELSE Entry(name.value,
                        InfortrendChassisSensorSection(
                            saveint(line[2]), saveint(line[3]), saveint(line[4]), line[5]))

parse_infortrend_chassis_sensors_a(string_table) ==
    parse_loop([i \in DOMAIN string_table |-> row_chassis_a(string_table[i])], 1, EmptyDict)

\* chassis B row: [name, status, type, value, unit]
row_chassis_b(line) ==
    IF Len(line) < 5 THEN Throw("IndexError")   \* line[0] .. line[4]
    ELSE Entry(line[1],
               InfortrendChassisSensorSection(
                   saveint(line[2]), saveint(line[3]), saveint(line[4]), line[5]))

parse_infortrend_chassis_sensors_b(string_table) ==
    parse_loop([i \in DOMAIN string_table |-> row_chassis_b(string_table[i])], 1, EmptyDict)

\* 2 ** exponent: an int for an exponent from 0 on, a float below, which is
\* 0.0 under the smallest float 2 ** -1074
pow2(exponent) ==
    IF exponent >= 0 THEN PyInt(2 ^ exponent)
    ELSE IF exponent < 0 - 1074 THEN PyFloat(FALSE, 0, 0)
    ELSE PyFloat(FALSE, 1, 0 - exponent)

\* size * factor, for an int size and an int or float factor: the float
\* product is exact, and -0.0 for a negative size and a factor 0.0
times(size, factor) ==
    IF IsInt(factor) THEN PyInt(size * factor.int)
    ELSE PyFloat((size < 0) # factor.float.negative,
                 Abs(size) * factor.float.num, factor.float.shift)

\* cmk.agent_based.v2.render.disksize belongs to the framework: the rendering
\* keeps the byte count, an int or a float
disksize(bytes) == str(bytes) \o " B"

\* disks A row: [slot, status, model, version, serial, size, blocksize]
row_disks_a(line) ==
    IF Len(line) < 6 THEN Throw("IndexError")               \* line[0] .. line[5]
    ELSE IF ~int_accepts(line[6]) THEN Throw("ValueError")  \* int(line[5])
    ELSE IF Len(line) < 7 THEN Throw("IndexError")          \* line[6]
    ELSE IF ~int_accepts(line[7]) THEN Throw("ValueError")  \* int(line[6])
    ELSE LET slot == line[1]
             state == saveint(line[2])
             size == int_value(line[6])
             blocksize == int_value(line[7])
             disksize_bytes == times(size, pow2(blocksize))
         IN  Entry(slot,
                   InfortrendDiskSection_a(slot, state,
                       line[3] \o " " \o line[4] \o " " \o line[5] \o ", "
                           \o disksize(disksize_bytes) \o ", "))

parse_infortrend_disks(string_table) ==
    parse_loop([i \in DOMAIN string_table |-> row_disks_a(string_table[i])], 1, EmptyDict)

\* v or other, for an int-or-str v: v is falsy when it is 0 or ''
or_else(v, other) == IF (IsInt(v) /\ v.int # 0) \/ (~IsInt(v) /\ v.str # "") THEN v ELSE other

\* disks B row: [slot, status]; disk_no is the row's index from enumerate.  The
\* test disk_no == '0' compares an int with a str and is never true.
row_disks_b(line, disk_no) ==
    IF Len(line) < 2 THEN Throw("IndexError")   \* line[0] or line[1]
    ELSE LET slot == str(or_else(saveint(line[1]), PyInt(disk_no)))
             state == saveint(line[2])
         IN  IF PyInt(disk_no) = PyStr("0") THEN Skip
             ELSE Entry(slot, InfortrendDiskSection_b(slot, state))

parse_infortrend_disks_b(string_table) ==
    parse_loop([i \in DOMAIN string_table |-> row_disks_b(string_table[i], i - 1)], 1, EmptyDict)

\* logical drives row: [slot, state]
row_logical_drives_a(line) ==
    IF Len(line) < 2 THEN Throw("IndexError")   \* line[0] or line[1]
    ELSE Entry(line[1], InfortrendLogicalDriveSection(saveint(line[2])))

parse_infortrend_logical_drives_a(string_table) ==
    parse_loop([i \in DOMAIN string_table |-> row_logical_drives_a(string_table[i])], 1, EmptyDict)

row_logical_drives_b(line) ==
    IF Len(line) < 2 THEN Throw("IndexError")   \* line[0] or line[1]
    ELSE Entry(line[1], InfortrendLogicalDriveSection(saveint(line[2])))

parse_infortrend_logical_drives_b(string_table) ==
    parse_loop([i \in DOMAIN string_table |-> row_logical_drives_b(string_table[i])], 1, EmptyDict)

-----------------------------------------------------------------------------
\* Discovery: one Service per non-empty key, in the order of section.keys()

Service(it) == [kind |-> "Service", item |-> it]

\* faulty variant of the discovery loop: the empty key is not passed over
discover_all_keys(keys) == [i \in DOMAIN keys |-> Service(keys[i])]

\* the discovery loop shared by the six discovery functions
discover(keys) ==
    LET named == SelectSeq(keys, LAMBDA k : k # "")
    IN  [i \in DOMAIN named |-> Service(named[i])]

discover_infortrend_chassis_sensors_a(keys) == discover(keys)
discover_infortrend_chassis_sensors_b(keys) == discover(keys)
discover_infortrend_disks(keys) == discover(keys)
discover_infortrend_disks_b(keys) == discover(keys)
discover_infortrend_logical_drives_a(keys) == discover(keys)
discover_infortrend_logical_drives_b(keys) == discover(keys)

-----------------------------------------------------------------------------
\* The polled device: one plugin's parsed section, checked item by item

Plugins ==
    { "infortrend_chassis_a", "infortrend_chassis_b",
      "infortrend_disks_a", "infortrend_disks_b",
      "infortrend_logical_drives_a", "infortrend_logical_drives_b" }

\* item keys a section may hold, and items a check may be invoked for
Keys == {"Fan 2", "1"}
Items == Keys \cup {"Slot 9"}

\* values a saveint-converted status field may hold
StatusValues == {PyInt(n) : n \in 0..MaxStatus} \cup {PyInt(0 - 1), PyInt(300), Absent}
\* values a saveint-converted sensor type field may hold: the enum, three codes
\* outside it, and the absent value
TypeValues == {PyInt(t) : t \in InfortrendChassisSensorTypeEnum \cup {7, 8, 16}} \cup {Absent}
\* values a saveint-converted metric value field may hold
RawValues == {PyInt(0 - 40), PyInt(0), PyInt(250), PyInt(5000), Absent}
\* descriptions parse_infortrend_disks formats from model, version, serial and size
Descriptions == {"ST4000 SN04 Z1Z, 3.64 TiB, "}

Records(p) ==
    IF p \in {"infortrend_chassis_a", "infortrend_chassis_b"}
    THEN {InfortrendChassisSensorSection(s, t, v, "C") :
             s \in StatusValues, t \in TypeValues, v \in RawValues}
    ELSE IF p = "infortrend_disks_a"
    THEN {InfortrendDiskSection_a("1", s, d) : s \in StatusValues, d \in Descriptions}
    ELSE IF p = "infortrend_disks_b"
    THEN {InfortrendDiskSection_b("1", s) : s \in StatusValues}
    ELSE {InfortrendLogicalDriveSection(s) : s \in StatusValues}

\* the sections of a poll: empty, or one item under one of the keys
Sections(p) == {<<>>} \cup {k :> r : k \in Keys, r \in Records(p)}

\* nothing is recorded
NoHistory == [recording |-> FALSE, polls |-> <<>>, checks |-> <<>>]

\* the history after a parse of the table with the outcome
AfterPoll(table, outcome) ==
    IF history.recording
    THEN [history EXCEPT !.polls = Append(@, [table |-> table, outcome |-> outcome])]
    ELSE history

\* the history after a check of the item against the section with the outcome
AfterCheck(sec, it, outcome) ==
    IF history.recording /\ Len(history.checks) < MaxChecks
    THEN [history EXCEPT !.checks =
              Append(@, [section |-> sec, item |-> it, outcome |-> outcome])]
    ELSE history

\* section.keys() of a section of at most one item
KeysOf(sec) == IF DOMAIN sec = {} THEN <<>> ELSE <<CHOOSE k \in DOMAIN sec : TRUE>>

Init ==
    /\ plugin \in Plugins
    /\ snmp_table = <<>>
    /\ section \in Sections(plugin)
    /\ section_keys = KeysOf(section)
    /\ history = NoHistory
    /\ item = ""
    /\ yielded = <<>>
    /\ raised = "none"
    /\ pc = "parsed"

\* the framework runs the plugin's check function on the plugin's section
Invoke(p, it, outcome) ==
    /\ pc \in {"parsed", "discovered", "checked"}
    /\ plugin = p
    /\ item' = it
    /\ yielded' = outcome.yielded
    /\ raised' = outcome.raised
    /\ pc' = "checked"
    /\ history' = AfterCheck(section, it, outcome)
    /\ UNCHANGED <<plugin, snmp_table, section, section_keys>>

CheckChassisA ==
    \E it \in Items :
        Invoke("infortrend_chassis_a", it, check_infortrend_chassis_sensors_a(it, section))

CheckChassisB ==
    \E it \in Items :
        Invoke("infortrend_chassis_b", it, check_infortrend_chassis_sensors_b(it, section))

CheckDisksA ==
    \E it \in Items :
        Invoke("infortrend_disks_a", it, check_infortrend_disks(it, section))

CheckDisksB ==
    \E it \in Items :
        Invoke("infortrend_disks_b", it, check_infortrend_disks_b(it, section))

CheckLogicalDrivesA ==
    \E it \in Items :
        Invoke("infortrend_logical_drives_a", it, check_infortrend_logical_drives_a(it, section))

CheckLogicalDrivesB ==
    \E it \in Items :
        Invoke("infortrend_logical_drives_b", it, check_infortrend_logical_drives_b(it, section))

Next ==
    \/ CheckChassisA
    \/ CheckChassisB
    \/ CheckDisksA
    \/ CheckDisksB
    \/ CheckLogicalDrivesA
    \/ CheckLogicalDrivesB

Spec == Init /\ [][Next]_vars

-----------------------------------------------------------------------------
\* The poll from the rows on: parse, then discover and check

\* rows of a chassis A table: names and ids around a base row, one row per
\* integer field with a token int() rejects, ids that are empty, not numeric
\* or negative, and the base row cut short
ChassisARows ==
    LET base == <<"Fan(2)", "0", "2", "250", "C", "0">>
    IN  {[base EXCEPT ![1] = n, ![6] = id] : n \in {"Fan(2)", "Fan", ""}, id \in {"0", "3"}}
        \cup {[base EXCEPT ![2] = "x"], [base EXCEPT ![3] = ""], [base EXCEPT ![4] = "x"]}
        \cup {[base EXCEPT ![6] = id] : id \in {"", "x", "-1"}}
        \cup {SubSeq(base, 1, n) : n \in 0..5}

ChassisBRows ==
    LET base == <<"Fan 2", "0", "2", "250", "C">>
    IN  {[base EXCEPT ![1] = n] : n \in {"Fan 2", "Fan(2)", ""}}
        \cup {[base EXCEPT ![2] = "x"], [base EXCEPT ![3] = ""], [base EXCEPT ![4] = "x"]}
        \cup {SubSeq(base, 1, n) : n \in 0..4}

\* rows of a disks A table: slots around a base row, states and sizes int()
\* rejects, a state padded with whitespace beside a negative block size, a
\* byte count of 2 ** -24, and the base row cut short
DisksARows ==
    LET base == <<"1", "1", "ST4000", "SN04", "Z1Z", "1000", "9">>
    IN  {[base EXCEPT ![1] = s] : s \in {"1", "2", ""}}
        \cup {[base EXCEPT ![2] = "x"], [base EXCEPT ![2] = "255"],
              [base EXCEPT ![6] = "x"], [base EXCEPT ![7] = ""],
              [base EXCEPT ![2] = "\t1\n", ![7] = "-1"],
              [base EXCEPT ![6] = "1", ![7] = "-24"]}
        \cup {SubSeq(base, 1, n) : n \in 0..6}

DisksBRows ==
    LET base == <<"1", "1">>
    IN  {[base EXCEPT ![1] = s] : s \in {"1", "2", "0", "x", "", " 2\r\n"}}
        \cup {[base EXCEPT ![2] = "x"], [base EXCEPT ![2] = "255"]}
        \cup {SubSeq(base, 1, n) : n \in 0..1}

LogicalDrivesRows ==
    LET base == <<"1", "0">>
    IN  {[base EXCEPT ![1] = s] : s \in {"1", "2", ""}}
        \cup {[base EXCEPT ![2] = "x"], [base EXCEPT ![2] = "131"]}
        \cup {SubSeq(base, 1, n) : n \in 0..1}

Rows(p) ==
    IF p = "infortrend_chassis_a" THEN ChassisARows
    ELSE IF p = "infortrend_chassis_b" THEN ChassisBRows
    ELSE IF p = "infortrend_disks_a" THEN DisksARows
    ELSE IF p = "infortrend_disks_b" THEN DisksBRows
    ELSE LogicalDrivesRows

\* the contractual column count of the plugin's rows
Columns(p) ==
    IF p = "infortrend_chassis_a" THEN 6
    ELSE IF p = "infortrend_chassis_b" THEN 5
    ELSE IF p = "infortrend_disks_a" THEN 7
    ELSE 2

Tables(p) == UNION {[1..n -> Rows(p)] : n \in 0..MaxRows}

InitParse ==
    /\ plugin \in Plugins
    /\ snmp_table = <<>>
    /\ section = <<>>
    /\ section_keys = <<>>
    /\ history = NoHistory
    /\ item = ""
    /\ yielded = <<>>
    /\ raised = "none"
    /\ pc = "start"

Poll(p, table, outcome) ==
    /\ plugin = p
    /\ snmp_table' = table
    /\ section' = IF outcome.raised = "none" THEN outcome.value.map ELSE <<>>
    /\ section_keys' = IF outcome.raised = "none" THEN outcome.value.order ELSE <<>>
    /\ raised' = outcome.raised
    /\ pc' = IF outcome.raised = "none" THEN "parsed" ELSE "parse_raised"
    /\ history' = AfterPoll(table, [section |-> section', section_keys |-> section_keys',
                                    raised |-> outcome.raised])
    /\ UNCHANGED <<plugin, item, yielded>>

\* the first poll of the device
Parse(p, table, outcome) ==
    /\ pc = "start"
    /\ Poll(p, table, outcome)

ParseChassisA ==
    \E table \in Tables("infortrend_chassis_a") :
        Parse("infortrend_chassis_a", table, parse_infortrend_chassis_sensors_a(table))

ParseChassisB ==
    \E table \in Tables("infortrend_chassis_b") :
        Parse("infortrend_chassis_b", table, parse_infortrend_chassis_sensors_b(table))

ParseDisksA ==
    \E table \in Tables("infortrend_disks_a") :
        Parse("infortrend_disks_a", table, parse_infortrend_disks(table))

ParseDisksB ==
    \E table \in Tables("infortrend_disks_b") :
        Parse("infortrend_disks_b", table, parse_infortrend_disks_b(table))

ParseLogicalDrivesA ==
    \E table \in Tables("infortrend_logical_drives_a") :
        Parse("infortrend_logical_drives_a", table, parse_infortrend_logical_drives_a(table))

ParseLogicalDrivesB ==
    \E table \in Tables("infortrend_logical_drives_b") :
        Parse("infortrend_logical_drives_b", table, parse_infortrend_logical_drives_b(table))

\* the framework runs the plugin's discovery function on the plugin's section
Discover(p, services) ==
    /\ pc \in {"parsed", "discovered", "checked"}
    /\ plugin = p
    /\ item' = ""
    /\ yielded' = services
    /\ raised' = "none"
    /\ pc' = "discovered"
    /\ UNCHANGED <<plugin, snmp_table, section, section_keys, history>>

DiscoverChassisA ==
    Discover("infortrend_chassis_a", discover_infortrend_chassis_sensors_a(section_keys))

DiscoverChassisB ==
    Discover("infortrend_chassis_b", discover_infortrend_chassis_sensors_b(section_keys))

DiscoverDisksA ==
    Discover("infortrend_disks_a", discover_infortrend_disks(section_keys))

DiscoverDisksB ==
    Discover("infortrend_disks_b", discover_infortrend_disks_b(section_keys))

DiscoverLogicalDrivesA ==
    Discover("infortrend_logical_drives_a", discover_infortrend_logical_drives_a(section_keys))

DiscoverLogicalDrivesB ==
    Discover("infortrend_logical_drives_b", discover_infortrend_logical_drives_b(section_keys))

NextParse ==
    \/ ParseChassisA
    \/ ParseChassisB
    \/ ParseDisksA
    \/ ParseDisksB
    \/ ParseLogicalDrivesA
    \/ ParseLogicalDrivesB
    \/ DiscoverChassisA
    \/ DiscoverChassisB
    \/ DiscoverDisksA
    \/ DiscoverDisksB
    \/ DiscoverLogicalDrivesA
    \/ DiscoverLogicalDrivesB
    \/ CheckChassisA
    \/ CheckChassisB
    \/ CheckDisksA
    \/ CheckDisksB
    \/ CheckLogicalDrivesA
    \/ CheckLogicalDrivesB

SpecParse == InitParse /\ [][NextParse]_vars

-----------------------------------------------------------------------------
\* Polling again and again, with every parse and check recorded

\* the parse_function registered for the plugin's section
parse_function(p, string_table) ==
    IF p = "infortrend_chassis_a" THEN parse_infortrend_chassis_sensors_a(string_table)
    ELSE IF p = "infortrend_chassis_b" THEN parse_infortrend_chassis_sensors_b(string_table)
    ELSE IF p = "infortrend_disks_a" THEN parse_infortrend_disks(string_table)
    ELSE IF p = "infortrend_disks_b" THEN parse_infortrend_disks_b(string_table)
    ELSE IF p = "infortrend_logical_drives_a" THEN parse_infortrend_logical_drives_a(string_table)
    ELSE parse_infortrend_logical_drives_b(string_table)

\* the rows a repeated poll fetches: the sensor, disk or drive of an item
\* that is checked, in two states, and a row the parser raises on
RepollRows(p) ==
    IF p = "infortrend_chassis_a"
    THEN {<<"Fan(2)", "0", "2", "250", "C", "0">>, <<"Fan(2)", "1", "2", "0", "C", "0">>,
          <<"Fan(2)", "0", "2", "250", "C", "">>}
    ELSE IF p = "infortrend_chassis_b"
    THEN {<<"Fan 2", "0", "2", "250", "C">>, <<"Fan 2", "1", "2", "0", "C">>,
          <<"Fan 2", "0", "2">>}
    ELSE IF p = "infortrend_disks_a"
    THEN {<<"1", "1", "ST4000", "SN04", "Z1Z", "1000", "9">>,
          <<"1", "255", "ST4000", "SN04", "Z1Z", "1000", "9">>,
          <<"1", "1", "ST4000", "SN04", "Z1Z", "x", "9">>}
    ELSE IF p = "infortrend_disks_b"
    THEN {<<"1", "1">>, <<"1", "255">>, <<"1">>}
    ELSE {<<"1", "0">>, <<"1", "131">>, <<"1">>}

RepollTables(p) == {<<>>} \cup {<<row>> : row \in RepollRows(p)}

InitRepoll ==
    /\ plugin \in Plugins
    /\ snmp_table = <<>>
    /\ section = <<>>
    /\ section_keys = <<>>
    /\ history = [NoHistory EXCEPT !.recording = TRUE]
    /\ item = ""
    /\ yielded = <<>>
    /\ raised = "none"
    /\ pc = "start"

\* the next poll: the framework fetches the rows and parses them anew
Repoll ==
    /\ Len(history.polls) < MaxPolls
    /\ \E table \in RepollTables(plugin) :
           Poll(plugin, table, parse_function(plugin, table))

NextRepoll ==
    \/ Repoll
    \/ DiscoverChassisA
    \/ DiscoverChassisB
    \/ DiscoverDisksA
    \/ DiscoverDisksB
    \/ DiscoverLogicalDrivesA
    \/ DiscoverLogicalDrivesB
    \/ CheckChassisA
    \/ CheckChassisB
    \/ CheckDisksA
    \/ CheckDisksB
    \/ CheckLogicalDrivesA
    \/ CheckLogicalDrivesB

SpecRepoll == InitRepoll /\ [][NextRepoll]_vars

-----------------------------------------------------------------------------
\* Vocabulary of the properties

Results == SelectSeq(yielded, LAMBDA y : y.kind = "Result")
Metrics == SelectSeq(yielded, LAMBDA y : y.kind = "Metric")

\* a check has run for an item the section holds; Checked is its record
CheckedItem == pc = "checked" /\ item \in DOMAIN section
Checked == section[item]

ChassisA == plugin = "infortrend_chassis_a"
ChassisB == plugin = "infortrend_chassis_b"
Chassis == ChassisA \/ ChassisB
DisksA == plugin = "infortrend_disks_a"
DisksB == plugin = "infortrend_disks_b"
Disks == DisksA \/ DisksB
LogicalDrivesA == plugin = "infortrend_logical_drives_a"
LogicalDrivesB == plugin = "infortrend_logical_drives_b"
LogicalDrives == LogicalDrivesA \/ LogicalDrivesB

TypeOK ==
    /\ plugin \in Plugins
    /\ item \in Items \cup {""}
    /\ raised \in {"none", "KeyError", "TypeError", "IndexError", "ValueError"}
    /\ pc \in {"start", "parsed", "parse_raised", "discovered", "checked"}
    /\ Len(section_keys) = Cardinality(DOMAIN section)
    /\ \A i \in DOMAIN section_keys : section_keys[i] \in DOMAIN section
    /\ history.recording \in BOOLEAN
    /\ Len(history.polls) <= MaxPolls
    /\ Len(history.checks) <= MaxChecks

\* the STATUS_INFO_MAP of the checked plugin's dialect
StatusInfoMap == IF ChassisA THEN STATUS_INFO_MAP_A ELSE STATUS_INFO_MAP_B
\* the DISK_STATUS_MAP of the checked plugin's dialect
DiskStatusMap == IF DisksA THEN DISK_STATUS_MAP_A ELSE DISK_STATUS_MAP_B
\* the logical-drive state table of the checked plugin's dialect
DriveStateMap == IF LogicalDrivesA THEN LDRIVE_STATE_INFO_MAP ELSE DRIVE_STATE_INFO_MAP

EnumTypes == {PyInt(t) : t \in InfortrendChassisSensorTypeEnum}
OctetStatuses == {PyInt(n) : n \in 0..255}

\* the type has an entry with a 'bits' table in the dialect's STATUS_INFO_MAP
UsableType(t) ==
    /\ HasKey(StatusInfoMap, t)
    /\ "bits" \in DOMAIN StatusInfoMap[t.int]

\* the logical-drive code left after masking bit 7 off
MaskedCode(s) == IF bit_of(s, 7) = 1 THEN s % 128 ELSE s

-----------------------------------------------------------------------------
\* C1: chassis decode is total -- in both dialects, checking an item whose
\* record has one of the 16 enum sensor types and an integer status in 0..255
\* (and an integer raw metric value) never raises and yields at least one
\* Result.  Stated as claimed; dialect A has no table for BACKPLANE,
\* ENCLOSURE_DRAWER and ENCLOSURE_MGMNT and raises KeyError there, and
\* dialect B raises ValueError for an LED record with bit 0 clear (see C19).
C1_ChassisDecodeTotal ==
    ( /\ CheckedItem /\ Chassis
      /\ Checked.sensor_type \in EnumTypes
      /\ Checked.sensor_status \in OctetStatuses
      /\ IsInt(Checked.metric_value_raw) )
    => ( raised = "none" /\ Len(Results) >= 1 )

\* C2: in both dialects a chassis record with status 0 yields exactly one
\* Result, OK, whose text is the 'clear' message of bit 0 of the table of the
\* record's sensor type, for every enum sensor type.  Stated as claimed;
\* fails in dialect A for the enum types that have no table (see C1) and in
\* dialect B for the LED type, whose message is empty (see C19).
C2_StatusZeroOneOk ==
    ( /\ CheckedItem /\ Chassis
      /\ Checked.sensor_type \in EnumTypes
      /\ Checked.sensor_status = PyInt(0)
      /\ IsInt(Checked.metric_value_raw) )
    => ( /\ raised = "none"
         /\ Len(Results) = 1
         /\ Results[1].state = "OK"
         /\ UsableType(Checked.sensor_type)
         /\ Results[1].summary = BitMsgs(StatusInfoMap[Checked.sensor_type.int].bits, 0)[1] )

\* C3: for each of the six check functions, a check invoked for an item key
\* that the section does not hold never raises and yields exactly one object,
\* a Result of severity UNKNOWN (hence no Metric).
C3_MissingItemUnknown ==
    ( pc = "checked" /\ item \notin DOMAIN section )
    => ( /\ raised = "none"
         /\ Len(yielded) = 1
         /\ yielded[1].kind = "Result"
         /\ yielded[1].state = "UNKNOWN"
         /\ Len(Metrics) = 0 )

\* C3 witness: the logical-drive check of dialect B ran for an item missing
\* from a non-empty section and reported UNKNOWN
C3_Witness ==
    /\ pc = "checked" /\ LogicalDrivesB
    /\ DOMAIN section # {}
    /\ item \notin DOMAIN section
    /\ yielded = <<Result("UNKNOWN", "cannot parse: None")>>

\* a field of the checked record is the absent value
AbsentField ==
    IF Chassis
    THEN Absent \in {Checked.sensor_status, Checked.sensor_type, Checked.metric_value_raw}
    ELSE IF Disks THEN Checked.state = Absent
    ELSE Checked.sensor_state = Absent

\* C4: in every check, a record whose status, sensor type, raw metric value
\* or state is the absent value is decoded without raising and is reported
\* with an UNKNOWN Result.  Stated as claimed; the chassis and logical-drive
\* checks raise TypeError or KeyError on such records.
C4_AbsentReportedUnknown ==
    ( CheckedItem /\ AbsentField )
    => ( /\ raised = "none"
         /\ \E i \in DOMAIN Results : Results[i].state = "UNKNOWN" )

\* C5: in both chassis dialects a record whose sensor type is an integer with
\* no usable entry in STATUS_INFO_MAP yields, for every status in 0..255,
\* exactly one UNKNOWN Result whose text carries the raw numeral, without a
\* table-lookup error.  Stated as claimed; the lookup raises KeyError.
C5_UnknownTypeUnknown ==
    ( /\ CheckedItem /\ Chassis
      /\ IsInt(Checked.sensor_type)
      /\ ~UsableType(Checked.sensor_type)
      /\ Checked.sensor_status \in OctetStatuses )
    => ( /\ raised = "none"
         /\ Len(Results) = 1
         /\ Results[1].state = "UNKNOWN"
         /\ \/ Contains(Results[1].summary, ToString(Checked.sensor_type.int))
            \/ Contains(Results[1].summary, ToString(Checked.sensor_status.int)) )

\* the severity the disk policy assigns to a known code
DiskSeverity(code) ==
    IF code \in {1, 3, 9} \/ (DisksB /\ code = 63) THEN "OK"
    ELSE IF code > 63 THEN "CRIT"
    ELSE "WARN"

\* C6: disk status decode, for every code of DISK_STATUS_MAP: 1, 3 and 9 (and
\* 63 in dialect B only) yield OK, every other code above 63 yields CRIT (255
\* with a text containing 'Failed Drive'), every remaining code yields WARN
\* (63 is WARN in dialect A), and the text contains the table message.
C6_DiskSeverityPolicy ==
    ( CheckedItem /\ Disks /\ HasKey(DiskStatusMap, Checked.state) )
    => LET code == Checked.state.int
       IN  /\ raised = "none"
           /\ Len(yielded) = 1
           /\ yielded[1].kind = "Result"
           /\ yielded[1].state = DiskSeverity(code)
           /\ Contains(yielded[1].summary, DiskStatusMap[code])
           /\ code = 255 => /\ yielded[1].state = "CRIT"
                            /\ Contains(yielded[1].summary, "Failed Drive")
           /\ code = 63 => yielded[1].state = (IF DisksA THEN "WARN" ELSE "OK")

\* C6 witness: dialect B reported the absent drive, code 63, as OK
C6_Witness ==
    /\ CheckedItem /\ DisksB
    /\ Checked.state = PyInt(63)
    /\ yielded = <<Result("OK", "Drive Absent")>>

\* C7: disk decode is total in both dialects -- for every state, an integer or
\* the absent value, the check never raises and yields exactly one Result; a
\* state that is not a key of DISK_STATUS_MAP yields UNKNOWN with the state's
\* literal numeral in the text.
C7_DiskDecodeTotal ==
    ( CheckedItem /\ Disks )
    => ( /\ raised = "none"
         /\ Len(yielded) = 1
         /\ yielded[1].kind = "Result"
         /\ ~HasKey(DiskStatusMap, Checked.state) =>
                /\ yielded[1].state = "UNKNOWN"
                /\ Contains(yielded[1].summary, format(Checked.state)) )

\* C7 witness: dialect A reported the unmapped code 200 as UNKNOWN, with
\* "200" in the text
C7_Witness ==
    /\ CheckedItem /\ DisksA
    /\ Checked.state = PyInt(200)
    /\ Len(yielded) = 1
    /\ yielded[1].state = "UNKNOWN"
    /\ Contains(yielded[1].summary, "Status is 200")

\* the severity the logical-drive policy assigns to a known masked code
DriveSeverity(code) ==
    IF code = 0 \/ (LogicalDrivesB /\ code = 64) THEN "OK"
    ELSE IF code \in {1, 2} THEN "WARN"
    ELSE "CRIT"

\* C8: logical-drive decode for known codes, in both dialects: with bit 7 set
\* the text contains 'Logical Drive Off-line (RW)' and the bit is masked off
\* before the lookup; the remaining code c yields exactly one Result whose
\* text contains the table message of c, OK for 0 (and 64 in dialect B), WARN
\* for 1 and 2, CRIT for 3..7.  Status 131 yields one CRIT Result containing
\* 'Logical Drive Off-line (RW)' and 'Degraded'.
C8_LogicalDriveKnownCodes ==
    ( /\ CheckedItem /\ LogicalDrives
      /\ IsInt(Checked.sensor_state)
      /\ MaskedCode(Checked.sensor_state.int) \in DOMAIN DriveStateMap )
    => LET raw == Checked.sensor_state.int
           code == MaskedCode(raw)
       IN  /\ raised = "none"
           /\ Len(yielded) = 1
           /\ yielded[1].kind = "Result"
           /\ yielded[1].state = DriveSeverity(code)
           /\ Contains(yielded[1].summary, DriveStateMap[code])
           /\ bit_of(raw, 7) = 1 =>
                  Contains(yielded[1].summary, "Logical Drive Off-line (RW)")
           /\ raw = 131 => /\ yielded[1].state = "CRIT"
                           /\ Contains(yielded[1].summary, "Degraded")

\* C8 witness: dialect A reported status 131 as one CRIT Result, off-line and
\* degraded
C8_Witness ==
    /\ CheckedItem /\ LogicalDrivesA
    /\ Checked.sensor_state = PyInt(131)
    /\ yielded = <<Result("CRIT", "Logical Drive Off-line (RW) Degraded")>>

\* C9: in both logical-drive dialects a status whose code after masking bit 7
\* is not a key of the state table never makes the check raise; it yields
\* exactly one Result, UNKNOWN, whose text carries the raw numeral.  Stated as
\* claimed; both dialects raise KeyError on the table lookup.
C9_UnknownDriveCodeUnknown ==
    ( /\ CheckedItem /\ LogicalDrives
      /\ IsInt(Checked.sensor_state)
      /\ MaskedCode(Checked.sensor_state.int) \notin DOMAIN DriveStateMap )
    => ( /\ raised = "none"
         /\ Len(Results) = 1
         /\ Results[1].state = "UNKNOWN"
         /\ \/ Contains(Results[1].summary, ToString(Checked.sensor_state.int))
            \/ Contains(Results[1].summary, ToString(MaskedCode(Checked.sensor_state.int))) )

\* the metric value v equals raw / divider
IsQuotient(v, raw, divider) == v.den > 0 /\ v.num * divider = raw * v.den

\* C10: metric extraction in both chassis dialects, for an integer raw value:
\* a TEMPERATURE record yields exactly one metric, 'temp', of value raw / 10
\* (250 gives 25), a VOLTAGE record exactly one metric, 'voltage', of value
\* raw / 1000 (5000 gives 5); a record of any other type yields no metric
\* whatever its raw value; no check invocation yields more than one metric.
C10_MetricExtraction ==
    /\ Len(Metrics) <= 1
    /\ ( CheckedItem /\ Chassis ) =>
           LET raw == Checked.metric_value_raw
               type == Checked.sensor_type
           IN  /\ ( type = PyInt(TEMPERATURE) /\ IsInt(raw) ) =>
                      /\ Len(Metrics) = 1
                      /\ Metrics[1].name = "temp"
                      /\ IsQuotient(Metrics[1].value, raw.int, 10)
                      /\ raw.int = 250 => Metrics[1].value = [num |-> 25, den |-> 1]
               /\ ( type = PyInt(VOLTAGE) /\ IsInt(raw) ) =>
                      /\ Len(Metrics) = 1
                      /\ Metrics[1].name = "voltage"
                      /\ IsQuotient(Metrics[1].value, raw.int, 1000)
                      /\ raw.int = 5000 => Metrics[1].value = [num |-> 5, den |-> 1]
               /\ type \notin {PyInt(TEMPERATURE), PyInt(VOLTAGE)} => Len(Metrics) = 0

\* C10 witness: dialect B yielded the metric temp = 25 for the raw value 250
C10_Witness ==
    /\ CheckedItem /\ ChassisB
    /\ Checked.sensor_type = PyInt(TEMPERATURE)
    /\ Checked.metric_value_raw = PyInt(250)
    /\ Len(Metrics) = 1
    /\ Metrics[1] = Metric("temp", [num |-> 25, den |-> 1])

-----------------------------------------------------------------------------
\* Claims about parsing and discovery (SpecParse)

\* the parser of the plugin ran on the fetched rows and nothing ran since
JustParsed == pc \in {"parsed", "parse_raised"}

\* every fetched row has the contractual column count
FullWidth == \A i \in DOMAIN snmp_table : Len(snmp_table[i]) = Columns(plugin)

\* the token is the decimal text of a positive integer
IsPositiveInteger(token) == int_accepts(token) /\ int_value(token) > 0

\* the item identity of chassis dialect A as described: 'ID {id} {name}' for
\* a positive integer id, else the name with each '(n)' rewritten to ' n'
ItemIdentity(name, sensor_id) ==
    IF IsPositiveInteger(sensor_id)
    THEN "ID " \o sensor_id \o " " \o name
    ELSE re_sub_parenthesis(name, 1)

\* C11: chassis A item identity -- a single full-width row with name and id
\* is keyed 'ID {id} {name}' when the id is a positive integer and, for every
\* other id (zero, negative, empty, non-numeric), by the name with '(n)'
\* rewritten to ' n', and building the key never raises.  Stated as claimed;
\* for an empty or non-numeric id saveint gives '' and '' > 0 raises
\* TypeError.
C11_ItemIdentity ==
    ( /\ plugin = "infortrend_chassis_a" /\ JustParsed
      /\ Len(snmp_table) = 1 /\ FullWidth )
    => ( /\ raised = "none"
         /\ section_keys = <<ItemIdentity(snmp_table[1][1], snmp_table[1][6])>> )

\* what the plugin's parser makes of row i of the fetched table
RowOutcome(i) ==
    IF plugin = "infortrend_chassis_a" THEN row_chassis_a(snmp_table[i])
    ELSE IF plugin = "infortrend_chassis_b" THEN row_chassis_b(snmp_table[i])
    ELSE IF plugin = "infortrend_disks_a" THEN row_disks_a(snmp_table[i])
    ELSE IF plugin = "infortrend_disks_b" THEN row_disks_b(snmp_table[i], i - 1)
    ELSE IF plugin = "infortrend_logical_drives_a" THEN row_logical_drives_a(snmp_table[i])
    ELSE row_logical_drives_b(snmp_table[i])

\* the rows that resolve to the key
RowsOfKey(key) ==
    {i \in DOMAIN snmp_table : ~RowOutcome(i).value.skip /\ RowOutcome(i).value.key = key}

\* the first row, in input order, that resolves to the key
FirstRowOfKey(key) == CHOOSE i \in RowsOfKey(key) : \A j \in RowsOfKey(key) : i <= j

\* the parser returned the section the state holds
HasSection == pc \in {"parsed", "discovered", "checked"} /\ snmp_table # <<>>

\* C12: first-seen-wins dedup -- whenever one of the six parsers returns,
\* the mapping holds exactly the keys its rows resolve to, one entry per
\* distinct key, and the record under a key is the one built from the first
\* row resolving to it; later rows with that key neither raise nor overwrite.
C12_FirstSeenWins ==
    HasSection
    => ( /\ DOMAIN section = {k \in DOMAIN section : RowsOfKey(k) # {}}
         /\ \A i \in DOMAIN snmp_table :
                ~RowOutcome(i).value.skip => RowOutcome(i).value.key \in DOMAIN section
         /\ \A k \in DOMAIN section :
                section[k] = RowOutcome(FirstRowOfKey(k)).value.record
         /\ Len(section_keys) = Cardinality(DOMAIN section) )

\* C12 witness: the disks B parser returned for two rows of slot 1 with
\* different states and the mapping holds the record of the first
C12_Witness ==
    /\ plugin = "infortrend_disks_b" /\ pc = "parsed"
    /\ snmp_table = << <<"1", "1">>, <<"1", "255">> >>
    /\ section = ("1" :> InfortrendDiskSection_b("1", PyInt(1)))
    /\ section_keys = <<"1">>

\* the integer-valued columns of a row that end up in an attribute of its
\* record, as <<column, attribute>>
IntegerAttributes(p) ==
    IF p \in {"infortrend_chassis_a", "infortrend_chassis_b"}
    THEN {<<2, "sensor_status">>, <<3, "sensor_type">>, <<4, "metric_value_raw">>}
    ELSE IF p \in {"infortrend_disks_a", "infortrend_disks_b"}
    THEN {<<2, "state">>}
    ELSE {<<2, "sensor_state">>}

\* C13: lenient field conversion -- parsing rows of the full contractual
\* width never raises, whatever the tokens of the integer-valued fields
\* (status, type, metric value, sensor id, disk state, size, block size,
\* drive state); a single row still produces its record, and an attribute
\* whose token is not a valid integer is the absent value.  Stated as
\* claimed; the disks A parser converts size and block size with int() and
\* raises ValueError, and the chassis A parser raises TypeError on a sensor
\* id that is not an integer (see C11).
C13_LenientConversion ==
    ( JustParsed /\ FullWidth )
    => ( /\ raised = "none"
         /\ Len(snmp_table) = 1
            => ( /\ Len(section_keys) = 1
                 /\ \A ca \in IntegerAttributes(plugin) :
                        ~int_accepts(snmp_table[1][ca[1]])
                        => section[section_keys[1]][ca[2]] = Absent ) )

\* some fetched row has fewer fields than the contractual column count
ShortRow == \E i \in DOMAIN snmp_table : Len(snmp_table[i]) < Columns(plugin)

\* C14: short rows do not crash the parsers -- for each of the six parsers
\* a table holding a row with fewer fields than the contractual column count
\* is parsed without raising (the attributes of the missing trailing fields
\* being recorded as absent).  Stated as claimed; every parser indexes the
\* row by position and raises IndexError on the first missing field.
C14_ShortRowsTolerated ==
    ( JustParsed /\ ShortRow ) => ( pc = "parsed" /\ raised = "none" )

\* C15: discovery -- each of the six discovery functions, run on a parsed
\* mapping, yields exactly one Service for each non-empty key of the
\* mapping, named by that key, yields nothing else, and yields no Service
\* for the empty-string key even when the mapping holds it.
C15_DiscoveryItems ==
    pc = "discovered"
    => ( /\ raised = "none"
         /\ \A i \in DOMAIN yielded :
                /\ yielded[i].kind = "Service"
                /\ yielded[i].item # ""
                /\ yielded[i].item \in DOMAIN section
         /\ \A k \in DOMAIN section \ {""} :
                Cardinality({i \in DOMAIN yielded : yielded[i].item = k}) = 1 )

\* C15 witness: the chassis B discovery ran on a mapping that holds the
\* empty key and the key 'Fan 2' and yielded the one Service 'Fan 2'
C15_Witness ==
    /\ plugin = "infortrend_chassis_b" /\ pc = "discovered"
    /\ DOMAIN section = {"", "Fan 2"}
    /\ yielded = <<Service("Fan 2")>>

\* the disk number of row i of a disks B table as described: the decimal
\* string of the slot field when it converts to a non-zero integer, else the
\* zero-based row index
DiskNumber(i) ==
    LET slot == snmp_table[i][1]
    IN  IF int_accepts(slot) /\ int_value(slot) # 0
        THEN ToString(int_value(slot))
        ELSE ToString(i - 1)

\* C16: disks B keying -- each full-width row is keyed by the decimal string
\* of its slot field when that converts to a non-zero integer and otherwise
\* by its zero-based row index, and rows of the disk numbered "0" are
\* skipped, so the mapping holds no record for disk "0".  Stated as claimed;
\* the skip test compares the integer row index with the string '0', is
\* never true, and the row of disk "0" is stored.
C16_DisksBKeying ==
    ( plugin = "infortrend_disks_b" /\ JustParsed /\ FullWidth )
    => ( /\ raised = "none"
         /\ \A i \in DOMAIN snmp_table :
                DiskNumber(i) # "0" => DiskNumber(i) \in DOMAIN section
         /\ \A k \in DOMAIN section :
                \E i \in DOMAIN snmp_table : DiskNumber(i) = k
         /\ "0" \notin DOMAIN section )

\* Claims about the per-bit decoding of the chassis checks (Spec)

\* the checked record reaches the loop over the declared bits: its sensor
\* type has a table in the dialect, its status is an integer other than the
\* given ones and the metric step has an integer to divide
DecodesBits(excluded) ==
    /\ CheckedItem /\ Chassis
    /\ UsableType(Checked.sensor_type)
    /\ IsInt(Checked.sensor_status)
    /\ Checked.sensor_status.int \notin excluded
    /\ IsInt(Checked.metric_value_raw)

\* the declared bits of the table of the checked record's sensor type
DeclaredBits == StatusInfoMap[Checked.sensor_type.int].bits

\* the bits are declared in ascending order
Ascending(bits) == \A i, j \in DOMAIN bits : i < j => bits[i].bit < bits[j].bit

\* the verdict of a declared bit in dialect A: a set bit below 6 is CRIT with
\* the 'set' message, a clear bit OK with the 'clear' message, bits 6 and 7
\* OK with the message selected by the bit value
VerdictA(entry, sensor_status) ==
    LET bit_set == bit_of(sensor_status, entry.bit)
    IN  IF entry.bit < 6
        THEN IF bit_set = 1 THEN Result("CRIT", entry.msgs[2])
                            ELSE Result("OK", entry.msgs[1])
        ELSE Result("OK", entry.msgs[bit_set + 1])

\* C18: chassis dialect A, non-zero status -- the check yields exactly one
\* Result; the declared bits are evaluated in ascending order and the Result
\* is the verdict of the last declared bit (CRIT with the 'set' message for
\* a set bit below 6, OK with the 'clear' message for a clear bit, OK with
\* the message selected by the bit value for bits 6 and 7), so a later
\* informational bit overrides an earlier CRIT verdict.
C18_LastBitWins ==
    ( ChassisA /\ DecodesBits({0}) )
    => ( /\ raised = "none"
         /\ Ascending(DeclaredBits)
         /\ Results = <<VerdictA(DeclaredBits[Len(DeclaredBits)], Checked.sensor_status.int)>> )

\* C18 witness: a dialect A record with a set bit below 6 whose table also
\* declares bit 6 or 7 was checked and the one Result is OK, the verdict of
\* the last declared bit
C18_Witness ==
    /\ ChassisA /\ DecodesBits({0})
    /\ \E i \in DOMAIN DeclaredBits :
           DeclaredBits[i].bit < 6 /\ bit_of(Checked.sensor_status.int, DeclaredBits[i].bit) = 1
    /\ DeclaredBits[Len(DeclaredBits)].bit >= 6
    /\ Len(Results) = 1
    /\ Results[1].state = "OK"

\* the verdict of a declared bit in dialect B: a set bit is CRIT with the
\* 'set' message followed by ' (!)', a clear bit OK with the 'clear' message
VerdictB(entry, sensor_status) ==
    IF bit_of(sensor_status, entry.bit) = 1
    THEN [kind |-> "Result", state |-> "CRIT", summary |-> entry.msgs[2] \o " (!)"]
    ELSE [kind |-> "Result", state |-> "OK", summary |-> entry.msgs[1]]

\* C19: chassis dialect B, status not in {0, 64, 255} -- the check yields
\* one Result per bit declared in the type's table, in ascending bit order;
\* the Result of a set bit is CRIT with the 'set' message followed by
\* ' (!)', the Result of a clear bit is OK with the 'clear' message, bits 6
\* and 7 being treated like the bits below 6.  Stated as claimed; the 'clear'
\* message of bit 0 of the LED table is empty, the Result constructor raises
\* ValueError for it, and an LED record with bit 0 clear yields nothing.
C19_ResultPerBit ==
    ( ChassisB /\ DecodesBits({0, 64, 255}) )
    => ( /\ raised = "none"
         /\ Ascending(DeclaredBits)
         /\ Len(Results) = Len(DeclaredBits)
         /\ \A i \in DOMAIN DeclaredBits :
                Results[i] = VerdictB(DeclaredBits[i], Checked.sensor_status.int) )

\* C20: chassis dialect B, status 255 -- for every sensor type, with or
\* without a table, the check yields exactly one Result, UNKNOWN with the
\* text 'Status unknown', and no per-bit Result.
C20_Status255Unknown ==
    ( /\ CheckedItem /\ ChassisB
      /\ Checked.sensor_status = PyInt(255)
      /\ IsInt(Checked.metric_value_raw) )
    => ( /\ raised = "none"
         /\ Results = <<Result("UNKNOWN", "Status unknown")>> )

\* C20 witness: a dialect B record with status 255 of a type that declares
\* several bits was checked and the one Result is 'Status unknown'
C20_Witness ==
    /\ CheckedItem /\ ChassisB
    /\ Checked.sensor_status = PyInt(255)
    /\ UsableType(Checked.sensor_type)
    /\ Len(DeclaredBits) >= 2
    /\ IsInt(Checked.metric_value_raw)
    /\ Results = <<Result("UNKNOWN", "Status unknown")>>

\* C21: chassis dialect B, status exactly 64 -- every Result of an LED
\* sensor is OK and its text is the per-bit message with ', ' appended;
\* every Result of any other sensor type is CRIT and its text is the per-bit
\* message prefixed with '64 '.  For a status other than 64 (and 0, 255,
\* which are not decoded bit by bit) the Results are the per-bit verdicts
\* unchanged.
C21_Status64Override ==
    /\ ( /\ CheckedItem /\ ChassisB
         /\ UsableType(Checked.sensor_type)
         /\ Checked.sensor_status = PyInt(64)
         /\ IsInt(Checked.metric_value_raw) )
       => ( /\ raised = "none"
            /\ Len(Results) = Len(DeclaredBits)
            /\ \A i \in DOMAIN DeclaredBits :
                   Results[i] =
                       IF Checked.sensor_type.int = LED
                       THEN Result("OK", VerdictB(DeclaredBits[i], 64).summary \o ", ")
                       ELSE Result("CRIT", "64 " \o VerdictB(DeclaredBits[i], 64).summary) )
    /\ ( ChassisB /\ DecodesBits({0, 64, 255}) )
       => \A i \in DOMAIN Results :
              /\ Results[i].state = VerdictB(DeclaredBits[i], Checked.sensor_status.int).state
              /\ Results[i].summary = VerdictB(DeclaredBits[i], Checked.sensor_status.int).summary

\* C21 witness: a dialect B LED record with status 64 was checked; the
\* Result of the set bit 6 is OK and its text ends with ', '
C21_Witness ==
    /\ CheckedItem /\ ChassisB
    /\ Checked.sensor_type = PyInt(LED)
    /\ Checked.sensor_status = PyInt(64)
    /\ Len(Results) = 3
    /\ Results[2] = Result("OK", "LED is inactive (!), ")
    /\ Results[3] = Result("OK", "LED is present, ")

\* C22: chassis dialect A never reports a failure -- bit 7 is the last
\* declared bit of every type in dialect A's STATUS_INFO_MAP, so for every
\* type in that table and every integer status in 0..255 the single Result
\* is OK, and for a non-zero status its text is the message of bit 7 for the
\* value of bit 7 of the status, whatever the malfunction bits are.
C22_DialectANeverFails ==
    ( /\ CheckedItem /\ ChassisA
      /\ UsableType(Checked.sensor_type)
      /\ Checked.sensor_status \in OctetStatuses
      /\ IsInt(Checked.metric_value_raw) )
    => ( /\ raised = "none"
         /\ DeclaredBits[Len(DeclaredBits)].bit = 7
         /\ Len(Results) = 1
         /\ Results[1].state = "OK"
         /\ Checked.sensor_status # PyInt(0)
            => Results[1].summary =
                   BitMsgs(DeclaredBits, 7)[bit_of(Checked.sensor_status.int, 7) + 1] )

\* C22 witness: a dialect A record whose status has the malfunction bit 0
\* set and bit 7 clear was checked and the one Result is OK with the 'clear'
\* message of bit 7
C22_Witness ==
    /\ CheckedItem /\ ChassisA
    /\ UsableType(Checked.sensor_type)
    /\ Checked.sensor_status = PyInt(1)
    /\ HasBit(DeclaredBits, 0)
    /\ IsInt(Checked.metric_value_raw)
    /\ Results = <<Result("OK", BitMsgs(DeclaredBits, 7)[1])>>

\* the logical-drive check of the checked plugin's dialect
DriveCheck(it, sec) ==
    IF LogicalDrivesA THEN check_infortrend_logical_drives_a(it, sec)
    ELSE check_infortrend_logical_drives_b(it, sec)

\* the outcome of checking the item when its drive has the given state
OutcomeOfState(state) ==
    DriveCheck(item, item :> InfortrendLogicalDriveSection(PyInt(state)))

\* C23: the logical-drive off-line flag does not influence severity -- in
\* both dialects, for every code c in 0..7 the check of status c + 128
\* yields one Result of the same severity as the check of status c; status
\* 128 (off-line, 'Good') is reported OK, and so is status 192 in dialect B.
C23_OfflineKeepsSeverity ==
    ( /\ CheckedItem /\ LogicalDrives
      /\ IsInt(Checked.sensor_state)
      /\ \/ Checked.sensor_state.int \in 128..135
         \/ LogicalDrivesB /\ Checked.sensor_state.int = 192 )
    => LET online == OutcomeOfState(Checked.sensor_state.int - 128)
       IN  /\ raised = "none"
           /\ Len(Results) = 1
           /\ online.raised = "none"
           /\ Len(online.yielded) = 1
           /\ Results[1].state = online.yielded[1].state
           /\ Checked.sensor_state.int \in {128, 192} => Results[1].state = "OK"

\* C23 witness: a dialect A drive with status 128 was checked and is
\* reported OK although the text says it is off-line
C23_Witness ==
    /\ CheckedItem /\ LogicalDrivesA
    /\ Checked.sensor_state = PyInt(128)
    /\ Len(Results) = 1
    /\ Results[1].state = "OK"
    /\ Contains(Results[1].summary, "Logical Drive Off-line (RW)")

\* the sensor types whose table carries the 'additional info' sub-field
AdtlTypes == {TEMPERATURE, VOLTAGE, CURRENT, UPS, BATTERY}

\* the chassis check of the checked plugin's dialect
ChassisCheck(it, sec) ==
    IF ChassisA THEN check_infortrend_chassis_sensors_a(it, sec)
    ELSE check_infortrend_chassis_sensors_b(it, sec)

\* the outcome of checking the item when its sensor has the given status
OutcomeOfStatus(status) ==
    ChassisCheck(item, item :> [Checked EXCEPT !.sensor_status = PyInt(status)])

\* the two statuses agree on every declared bit
AgreeOn(bits, s1, s2) ==
    \A i \in DOMAIN bits : bit_of(s1, bits[i].bit) = bit_of(s2, bits[i].bit)

\* C24: the 'additional info' sub-field (adtl_info / adtl_func) is never
\* consulted by either chassis check -- for a temperature, voltage, current,
\* UPS or battery sensor, whose table carries the sub-field, any two
\* statuses outside {0, 64, 255} that agree on every declared bit produce
\* identical sequences of Results; a temperature sensor with status 10
\* (sub-code 5, 'Hot Temp. Limit Exceeded') yields only OK Results in both
\* dialects.
C24_AdtlInfoIgnored ==
    ( /\ DecodesBits({0, 64, 255})
      /\ Checked.sensor_type.int \in AdtlTypes
      /\ Checked.sensor_status.int \in 1..255 )
    => ( /\ raised = "none"
         /\ "adtl_info" \in DOMAIN StatusInfoMap[Checked.sensor_type.int]
         /\ "adtl_func" \in DOMAIN StatusInfoMap[Checked.sensor_type.int]
         /\ \A other \in (1..254) \ {64} :
                AgreeOn(DeclaredBits, Checked.sensor_status.int, other)
                => OutcomeOfStatus(other) = [yielded |-> yielded, raised |-> raised]
         /\ ( Checked.sensor_type.int = TEMPERATURE /\ Checked.sensor_status.int = 10 )
            => ( Len(Results) >= 1 /\ \A i \in DOMAIN Results : Results[i].state = "OK" ) )

\* C24 witness: a dialect B temperature sensor with status 10, whose
\* sub-code 5 the table lists as 'Hot Temp. Limit Exceeded', was checked and
\* every one of its three Results is OK
C24_Witness ==
    /\ ChassisB /\ DecodesBits({0, 64, 255})
    /\ Checked.sensor_type = PyInt(TEMPERATURE)
    /\ Checked.sensor_status = PyInt(10)
    /\ StatusInfoMap[TEMPERATURE].adtl_info[5] = "Hot Temp. Limit Exceeded"
    /\ Len(Results) = 3
    /\ \A i \in DOMAIN Results : Results[i].state = "OK"

====
